---------------------------- MODULE Spec2Model ----------------------------
(***************************************************************************)
(* A model of the p2p-storage node: key bootstrap over handshakes, the     *)
(* content-addressed store, watch ingest, announce / request / transfer    *)
(* and the receive-side reassembly of chunked transfers.                   *)
(*                                                                         *)
(* Scaling.  Bytes are bits, the IV is IVSize bytes, a transfer chunk is   *)
(* TransferChunk bytes (1 MiB in the code), keys are drawn from Keys.      *)
(* SHA-1 is modelled as an injective numbering of byte strings, AES-CTR as *)
(* the addition of a key- and IV-dependent keystream.                      *)
(***************************************************************************)
EXTENDS Integers, Sequences, FiniteSets, TLC

\* ------------------------------------------------------------- bounds
MaxConns      == 3      \* connections ever dialed
MaxDials      == 2      \* dials where any node may dial any node, or dial again
TransferChunk == 2      \* bytes per data_transfer chunk (stands for 1 MiB)
IVSize        == 1      \* bytes of IV in front of the ciphertext
MaxOps        == 2      \* files dropped into watch/, store and get commands
MaxDrops      == 1      \* files dropped into watch/ where replication must end
MaxFaults     == 1      \* chunks corrupted or lost in flight

Nodes  == {"A", "B", "C"}
Bytes  == {0, 1}
Keys   == {1, 2}
NoKey  == 0             \* a nil / absent key field
None   == "-"
Sides  == {"d", "l"}    \* the dialing and the listening end of a connection
ConnIds == 1 .. MaxConns
Endpoints == ConnIds \X Sides

VARIABLES
  started,      \* the nodes that run in this scenario
  isFirstNode,  \* Node.isFirstNode
  localKey,     \* Node.localKey: the key NewNode generated
  networkKey,   \* Node.networkKey
  keyReady,     \* Node.keyReady is closed
  peers,        \* Node.peers: nodeId -> advertised address
  conns,        \* the TCP connections: who dialed whom
  registry,     \* Transport.peers: the connections registered at a node
  wire,         \* per endpoint, the records written to it and not yet decoded
  rl,           \* per endpoint, where its read loop is
  pstate,       \* per endpoint, the Peer: done closed, connection open, read
                \* loop started / ended, and how often Close was called
  nstate,       \* per node, whether Stop was called, the panic it died of, and
                \* the addresses its discovery goroutines have yet to dial
  send,         \* one peer's send path: its mutex, the goroutines inside
                \* Send, and the fragments written to the connection
  disk,         \* one Store's base directory: its files and directories by
                \* path, and the operations done on it
  crypt,        \* one EncryptStream call and the DecryptStream call on its
                \* output: key, IV, plaintext, and how far each has come
  codec,        \* one Message built by NewMessage and the result of one
                \* ParsePayload on it
  store,        \* per node, Store: content hash -> bytes
  downloads,    \* per node, downloads/: name -> bytes
  transfers,    \* Node.transfers: transfer key -> transferState
  files,        \* the transferStates (temp file and counters), by identity
  hist,         \* per node, the hashes it ingested from watch/, those it
                \* committed from a transfer and the number of watch events
                \* and user commands it ran (history, read by no handler)
  budget,       \* what the environment may still do
  lastErr       \* per endpoint, the error its last handler returned

nodeVars == <<started, isFirstNode, localKey, networkKey, keyReady, peers, nstate>>
netVars  == <<conns, registry, wire, rl, pstate>>
dataVars == <<store, downloads, transfers, files, hist>>
compVars == <<send, disk, crypt, codec>>
vars == <<started, isFirstNode, localKey, networkKey, keyReady, peers, conns, registry,
          wire, rl, pstate, nstate, send, disk, crypt, codec, store, downloads, transfers, files, hist, budget, lastErr>>

\* ------------------------------------------------------------- helpers
Min(a, b) == IF a < b THEN a ELSE b

SeqsUpTo(S, n) == UNION {[1 .. k -> S] : k \in 0 .. n}

Put(f, k, v) == (k :> v) @@ f

Drop(f, k) == [x \in (DOMAIN f) \ {k} |-> f[x]]

\* ------------------------------------------------------------- connections
NoConn == [dialer |-> None, listener |-> None, accepted |-> FALSE,
           hadKey |-> FALSE, gotDial |-> FALSE, gotResp |-> FALSE]

Other(e) == <<e[1], IF e[2] = "d" THEN "l" ELSE "d">>

\* the node that owns endpoint e
Owner(e) == IF e[2] = "d" THEN conns[e[1]].dialer ELSE conns[e[1]].listener

\* Peer.ID(): the remote address of the connection, as this end sees it.  The
\* dialing end sees the listen address it dialed, the accepting end sees the
\* dialer's ephemeral port (one per connection).
PeerID(e) == IF e[2] = "d" THEN <<conns[e[1]].listener, 0>>
                           ELSE <<conns[e[1]].dialer, e[1]>>

\* the endpoint of connection c that node n owns
EndOf(n, c) == IF conns[c].dialer = n THEN <<c, "d">> ELSE <<c, "l">>

NoMsg == [type |-> "none"]

\* the goroutines of a node that send to a peer: the read loop's handler,
\* the watch loop's ingest, the user's command
Threads == {"handler", "watch", "user"}

\* a peer nobody sends to: mutex free, nothing written
NoSend == [mu |-> None, at |-> [t \in Threads |-> 0],
           sent |-> [t \in Threads |-> 0], stream |-> <<>>]

\* no stream is being encrypted
NoCrypt == [pc |-> "none"]
NoMessage == [pc |-> "none"]

\* the directory temp/ under the base directory of a Store
TempDir == <<"t", "e", "m", "p">>

\* no Store.Store call is running
NoOp == [pc |-> "none"]

\* NewStore: a base directory that holds the empty directory temp/
NoDisk == [files |-> <<>>, dirs |-> {<<>>, <<TempDir>>}, log |-> <<>>, last |-> <<>>,
           op |-> NoOp]

\* NewPeer, before Start
NoPeer == [done |-> FALSE, open |-> FALSE, loop |-> "none", closes |-> 0]

Idle == [pc |-> "idle", msg |-> NoMsg, st |-> 0]

\* ------------------------------------------------------------- messages
HandshakeMsg(sender, known, key, dial) ==
  [type |-> "handshake", sender |-> sender, nodeId |-> sender,
   address |-> sender, knownPeers |-> known, key |-> key, dial |-> dial]

\* a record written to endpoint e reaches the remote end: neither end has
\* closed the connection
Deliverable(e) == pstate[e].open /\ pstate[Other(e)].open

\* Peer.Send: one framed record appended to what the remote end will decode
SendTo(w, e, m) ==
  IF Deliverable(e) THEN [w EXCEPT ![Other(e)] = Append(@, m)] ELSE w

\* ------------------------------------------------------------- key bootstrap
\* handshake.go CreateHandshake as Transport.Connect uses it: no key, no peers
DialHandshake(n) == HandshakeMsg(n, {}, NoKey, TRUE)

\* Transport.Connect: dial, register under the remote address (replacing a
\* peer registered under the same id), start the read loop, send a handshake
Dial(n, m) ==
  /\ n \in started /\ m \in started /\ n # m
  /\ budget.dials > 0
  /\ \E c \in ConnIds :
       /\ conns[c] = NoConn
       /\ \A c2 \in ConnIds : c2 < c => conns[c2] # NoConn
       /\ conns' = [conns EXCEPT ![c] =
                      [dialer |-> n, listener |-> m, accepted |-> FALSE,
                       hadKey |-> isFirstNode[m] \/ keyReady[m],
                       gotDial |-> FALSE, gotResp |-> FALSE]]
       /\ registry' = [registry EXCEPT ![n] =
            {c2 \in @ : ~(conns[c2].dialer = n /\ conns[c2].listener = m)}
              \cup {c}]
       /\ wire' = [wire EXCEPT ![<<c, "l">>] = Append(@, DialHandshake(n))]
       /\ pstate' = [pstate EXCEPT ![<<c, "d">>] = [NoPeer EXCEPT !.open = TRUE,
                                                                !.loop = "running"],
                                   ![<<c, "l">>] = [NoPeer EXCEPT !.open = TRUE]]
  /\ budget' = [budget EXCEPT !.dials = @ - 1]
  /\ UNCHANGED <<started, isFirstNode, localKey, networkKey, keyReady, peers, rl,
                 dataVars, lastErr>>
  /\ UNCHANGED compVars

\* Node.Connect, called by main for the address on the command line and for
\* the connect command
Connect(n, m) == Dial(n, m) /\ UNCHANGED nstate

\* Transport.acceptLoop: wrap the accepted connection, register it, start it
Accept(c) ==
  /\ conns[c] # NoConn /\ ~conns[c].accepted
  /\ conns[c].listener \in started
  /\ conns' = [conns EXCEPT ![c].accepted = TRUE]
  /\ registry' = [registry EXCEPT ![conns[c].listener] = @ \cup {c}]
  /\ pstate' = [pstate EXCEPT ![<<c, "l">>].loop = "running"]
  /\ UNCHANGED <<nodeVars, wire, rl, dataVars, budget, lastErr>>
  /\ UNCHANGED compVars

\* the read loop of endpoint e runs and is between two messages
Reading(e) ==
  /\ conns[e[1]] # NoConn
  /\ e[2] = "l" => conns[e[1]].accepted
  /\ pstate[e].loop = "running" /\ pstate[e].open
  /\ rl[e].pc = "idle"
  /\ wire[e] # <<>>
  /\ Head(wire[e]).type # "garbage"

\* Node.getKnownPeers
getKnownPeers(p) == {p[x] : x \in DOMAIN p}

KeyNeverAdopted(n, m) == networkKey[n]

\* the networkKey a node holds after handling handshake m
KeyAfterHandshake(n, m) ==
  IF ~isFirstNode[n] /\ m.key # NoKey THEN m.key ELSE networkKey[n]

ReadyIffKeyArrives(n, m) == ~isFirstNode[n] /\ m.key # NoKey

\* keyReady after the select of handleHandshake: closed before, or closed
\* now by a joiner that got a key
ReadyAfterHandshake(n, m) ==
  keyReady[n] \/ (~isFirstNode[n] /\ m.key # NoKey)

ResponseKeyOfAnyHolder(n) ==
  IF isFirstNode[n] \/ keyReady[n] THEN networkKey[n] ELSE NoKey

ResponseWithoutKey(n) == NoKey

\* the key field of a handshake response
ResponseKey(n) == IF isFirstNode[n] THEN networkKey[n] ELSE NoKey

\* Node.handleHandshake
handleHandshake(e) ==
  /\ Reading(e)
  /\ Head(wire[e]).type = "handshake"
  /\ LET n == Owner(e)
         m == Head(wire[e])
         p == Put(peers[n], m.nodeId, m.address)
     IN /\ peers' = [peers EXCEPT ![n] = p]
        /\ networkKey' = [networkKey EXCEPT ![n] = KeyAfterHandshake(n, m)]
        /\ keyReady' = [keyReady EXCEPT ![n] = ReadyAfterHandshake(n, m)]
        /\ wire' = SendTo([wire EXCEPT ![e] = Tail(@)], e,
                          HandshakeMsg(n, getKnownPeers(p), ResponseKey(n), FALSE))
        /\ conns' = [conns EXCEPT ![e[1]] =
                       IF e[2] = "d" THEN [@ EXCEPT !.gotResp = TRUE]
                                     ELSE [@ EXCEPT !.gotDial = TRUE]]
        /\ lastErr' = [lastErr EXCEPT ![e] = None]
  /\ UNCHANGED <<started, isFirstNode, localKey, nstate, registry, rl, pstate,
                 dataVars, budget>>
  /\ UNCHANGED compVars

\* ------------------------------------------------------------- crypto
\* crypto.ContentHash: SHA-1 as an injective numbering of the byte strings
RECURSIVE ContentHash(_)
ContentHash(b) ==
  IF b = <<>> THEN 0
  ELSE 2 * ContentHash(SubSeq(b, 1, Len(b) - 1)) + b[Len(b)] + 1

RECURSIVE SumSeq(_)
SumSeq(b) == IF b = <<>> THEN 0 ELSE b[1] + SumSeq(Tail(b))

\* byte i of the CTR keystream of (key, iv)
KeyStream(key, iv, i) == (key + SumSeq(iv) + i) % 2

XORKeyStream(key, iv, b) ==
  [i \in 1 .. Len(b) |-> (b[i] + KeyStream(key, iv, i)) % 2]

EncryptStreamCopies(key, iv, plain) == plain

\* crypto.EncryptStream with the IV it drew: the IV, then the CTR ciphertext
EncryptStream(key, iv, plain) == iv \o XORKeyStream(key, iv, plain)

DecryptStreamCopies(key, cipher) == [ok |-> TRUE, out |-> cipher]

\* crypto.DecryptStream: fails when fewer than IVSize bytes can be read
DecryptStream(key, cipher) ==
  IF Len(cipher) < IVSize
    THEN [ok |-> FALSE, out |-> <<>>]
    ELSE [ok |-> TRUE,
          out |-> XORKeyStream(key, SubSeq(cipher, 1, IVSize),
                               SubSeq(cipher, IVSize + 1, Len(cipher)))]

IVs == [1 .. IVSize -> Bytes]

\* ------------------------------------------------------------- messages (data)
DataMsg(sender, h, size, fromWatch) ==
  [type |-> "data", sender |-> sender, contentHash |-> h, size |-> size,
   fromWatch |-> fromWatch]

DataRequestFromWatch(sender, h, fromWatch) ==
  [type |-> "data_request", sender |-> sender, contentHash |-> h,
   fromWatch |-> TRUE]

DataRequestMsg(sender, h, fromWatch) ==
  [type |-> "data_request", sender |-> sender, contentHash |-> h,
   fromWatch |-> fromWatch]

DataTransferMsg(sender, h, data, idx, final, fromWatch) ==
  [type |-> "data_transfer", sender |-> sender, contentHash |-> h,
   data |-> data, chunkIndex |-> idx, finalChunk |-> final,
   fromWatch |-> fromWatch]

\* a broadcast that gives up when a registered peer cannot be sent to
BroadcastAborts(w, n, m) ==
  IF \E c \in registry[n] : ~Deliverable(EndOf(n, c)) THEN w
  ELSE [e \in Endpoints |->
          IF \E c \in registry[n] : e = Other(EndOf(n, c))
            THEN Append(w[e], m) ELSE w[e]]

\* Transport.Broadcast: one Send per registered peer
Broadcast(w, n, m) ==
  [e \in Endpoints |->
     IF \E c \in registry[n] : e = Other(EndOf(n, c)) /\ Deliverable(EndOf(n, c))
       THEN Append(w[e], m) ELSE w[e]]

\* what Transport.Broadcast returns: the failed sends are printed, the result
\* is nil
BroadcastErr(w, n, m) == None

\* ------------------------------------------------------------- store
StoreDrops(s, h, b) == s

\* Store.Store: the bytes are written to a temp file that is then renamed
\* onto the path of the hash, replacing what was there
StoreStore(s, h, b) == Put(s, h, b)

ExistsIfAnyStored(s, h) == DOMAIN s # {}

\* Store.Exists
Exists(s, h) == h \in DOMAIN s

KeyAlwaysAvailable(n) == TRUE

\* waitForKey returns nil: a first node at once, a joiner once keyReady is closed
KeyAvailable(n) == isFirstNode[n] \/ keyReady[n]

\* ------------------------------------------------------------- ingest
\* Node.handleNewFile.  Without the key the wait times out and nothing is done.
handleNewFile(n, plain, iv) ==
  /\ n \in started
  /\ budget.ops > 0
  /\ budget' = [budget EXCEPT !.ops = @ - 1]
  /\ IF KeyAvailable(n)
       THEN LET cipher == EncryptStream(networkKey[n], iv, plain)
                hash == ContentHash(cipher)
            IN /\ store' = [store EXCEPT ![n] = StoreStore(@, hash, cipher)]
               /\ wire' = Broadcast(wire, n, DataMsg(n, hash, Len(plain), TRUE))
               /\ hist' = [hist EXCEPT ![n].watched = @ \cup {hash},
                                       ![n].cmds = @ + 1,
                                       ![n].bcastErr =
                                         BroadcastErr(wire, n,
                                           DataMsg(n, hash, Len(plain), TRUE))]
       ELSE /\ hist' = [hist EXCEPT ![n].cmds = @ + 1]
            /\ UNCHANGED <<store, wire>>
  /\ UNCHANGED <<nodeVars, conns, registry, pstate, rl, downloads, transfers, files,
                 lastErr>>
  /\ UNCHANGED compVars

\* Node.StoreFile
StoreFile(n, plain, iv) ==
  /\ n \in started
  /\ budget.ops > 0
  /\ budget' = [budget EXCEPT !.ops = @ - 1]
  /\ IF KeyAvailable(n)
       THEN LET cipher == EncryptStream(networkKey[n], iv, plain)
            IN store' = [store EXCEPT ![n] =
                           StoreStore(@, ContentHash(cipher), cipher)]
       ELSE UNCHANGED store
  /\ hist' = [hist EXCEPT ![n].cmds = @ + 1]
  /\ UNCHANGED <<nodeVars, netVars, downloads, transfers, files, lastErr>>
  /\ UNCHANGED compVars

NoReader == [open |-> FALSE]

\* what Node.GetFile returns once the key wait is over: the reader of the
\* stored object and the key, or no reader, the key and an error
GetFileResult(n, h) ==
  IF Exists(store[n], h)
    THEN [reader |-> [open |-> TRUE, bytes |-> store[n][h]],
          key |-> networkKey[n], err |-> None]
    ELSE [reader |-> NoReader, key |-> networkKey[n],
          err |-> "file not found locally, request sent to peers"]

\* Node.GetFile: creates downloads/, and asks every registered peer when the
\* object is not in the local store
GetFile(n, h) ==
  /\ n \in started
  /\ budget.ops > 0
  /\ budget' = [budget EXCEPT !.ops = @ - 1]
  /\ downloads' = [downloads EXCEPT ![n].dir = TRUE]
  /\ IF KeyAvailable(n) /\ ~Exists(store[n], h)
       THEN /\ wire' = Broadcast(wire, n, DataRequestMsg(n, h, FALSE))
            /\ hist' = [hist EXCEPT ![n].cmds = @ + 1,
                                    ![n].bcastErr =
                                      BroadcastErr(wire, n,
                                        DataRequestMsg(n, h, FALSE))]
       ELSE /\ UNCHANGED wire
            /\ hist' = [hist EXCEPT ![n].cmds = @ + 1]
  /\ UNCHANGED <<nodeVars, conns, registry, pstate, rl, store, transfers, files,
                 lastErr>>
  /\ UNCHANGED compVars

\* ------------------------------------------------------------- panics
\* the runtime errors that end the process
ChanClosed == "close of closed channel"
SliceBounds == "slice bounds out of range"

\* a content hash of fewer than four characters, as a remote peer can send it
ShortHash == 0 - 1

\* Store.hashToPath slices contentHash[0:2], [2:4] and [4:]: the slice
\* expressions panic when the string is shorter than four characters
hashToPathFaults(h) == h = ShortHash

\* a panic in any goroutine ends the process of node n: its connections are
\* gone with it, and so is every read loop and every handler
Panic(n, why, ps, ns) ==
  /\ started' = started \ {n}
  /\ nstate' = [ns EXCEPT ![n].fault = why]
  /\ pstate' = [e \in Endpoints |->
                 IF Owner(e) = n
                   THEN [ps[e] EXCEPT !.open = FALSE,
                                      !.loop = IF @ = "running" THEN "dead" ELSE @]
                   ELSE ps[e]]
  /\ rl' = [e \in Endpoints |-> IF Owner(e) = n THEN Idle ELSE rl[e]]

idVars == <<isFirstNode, localKey, networkKey, keyReady, peers>>
runVars == <<started, nstate, pstate, rl>>

\* ------------------------------------------------------------- announce, request
\* Node.handleData
handleData(e) ==
  /\ Reading(e)
  /\ Head(wire[e]).type = "data"
  /\ LET n == Owner(e)
         m == Head(wire[e])
         rest == [wire EXCEPT ![e] = Tail(@)]
     IN IF hashToPathFaults(m.contentHash)
          THEN /\ Panic(n, SliceBounds, pstate, nstate)
               /\ UNCHANGED <<wire, lastErr>>
          ELSE /\ wire' = IF Exists(store[n], m.contentHash)
                            THEN rest
                            ELSE SendTo(rest, e,
                                        DataRequestMsg(n, m.contentHash,
                                                       m.fromWatch))
               /\ lastErr' = [lastErr EXCEPT ![e] =
                                IF ~Exists(store[n], m.contentHash)
                                   /\ ~Deliverable(e)
                                  THEN "failed to send data request" ELSE None]
               /\ UNCHANGED runVars
  /\ UNCHANGED <<idVars, conns, registry, dataVars, budget>>
  /\ UNCHANGED compVars

\* the read loop of handleDataRequest: Read fills the buffer or returns what is
\* left; a Read at the end of the file returns EOF and ends the loop
RECURSIVE ReadChunks(_, _, _)
ReadChunks(b, off, idx) ==
  IF off >= Len(b) THEN <<>>
  ELSE LET n == Min(TransferChunk, Len(b) - off)
       IN <<[data |-> SubSeq(b, off + 1, off + n), chunkIndex |-> idx,
             finalChunk |-> n < TransferChunk]>>
          \o ReadChunks(b, off + n, idx + 1)

RECURSIVE SendAll(_, _, _)
SendAll(w, e, ms) ==
  IF ms = <<>> THEN w ELSE SendAll(SendTo(w, e, Head(ms)), e, Tail(ms))

\* Node.handleDataRequest
handleDataRequest(e) ==
  /\ Reading(e)
  /\ Head(wire[e]).type = "data_request"
  /\ LET n == Owner(e)
         m == Head(wire[e])
         rest == [wire EXCEPT ![e] = Tail(@)]
     IN IF hashToPathFaults(m.contentHash)
          THEN /\ Panic(n, SliceBounds, pstate, nstate)
               /\ UNCHANGED <<wire, lastErr>>
          ELSE IF Exists(store[n], m.contentHash)
          THEN /\ wire' = SendAll(rest, e,
                   [i \in DOMAIN ReadChunks(store[n][m.contentHash], 0, 0) |->
                      LET ch == ReadChunks(store[n][m.contentHash], 0, 0)[i]
                      IN DataTransferMsg(n, m.contentHash, ch.data,
                                         ch.chunkIndex, ch.finalChunk,
                                         m.fromWatch)])
               /\ lastErr' = [lastErr EXCEPT ![e] =
                                IF Deliverable(e) THEN None
                                ELSE "failed to send chunk"]
               /\ UNCHANGED runVars
          ELSE /\ wire' = rest
               /\ lastErr' = [lastErr EXCEPT ![e] = "failed to load file"]
               /\ UNCHANGED runVars
  /\ UNCHANGED <<idVars, conns, registry, dataVars, budget>>
  /\ UNCHANGED compVars

\* ------------------------------------------------------------- receiving chunks
\* the transferState of a transfer: its temp file and its counters
NewTransferState(fromWatch) ==
  [content |-> <<>>, closed |-> FALSE, chunks |-> {}, received |-> 0,
   fromWatch |-> fromWatch]

\* fmt.Sprintf("%s-%s", peer.ID(), transfer.ContentHash)
TransferKey(e, h) == <<PeerID(e), h>>

NewFileId ==
  CHOOSE i \in 1 .. Cardinality(DOMAIN files) + 1 :
    i \notin DOMAIN files /\ \A j \in 1 .. i - 1 : j \in DOMAIN files

\* the transferStates some map entry or some running handler still points to
Referenced(r, t) ==
  {r[e].st : e \in Endpoints} \cup
  UNION {{t[n][k] : k \in DOMAIN t[n]} : n \in Nodes}

\* a closed and unlinked temp file that nothing points to is gone
Collect(fs, r, t) ==
  [i \in {j \in DOMAIN fs : ~fs[j].closed \/ j \in Referenced(r, t)} |-> fs[i]]

WriteAtStart(content, data, off) ==
  [i \in 1 .. (IF Len(content) > Len(data) THEN Len(content) ELSE Len(data)) |->
     IF i <= Len(data) THEN data[i] ELSE content[i]]

\* os.File.WriteAt: the file grows to offset + len(data), the gap reads as zero
WriteAt(content, data, off) ==
  IF data = <<>> THEN content
  ELSE LET len == IF Len(content) > off + Len(data)
                    THEN Len(content) ELSE off + Len(data)
       IN [i \in 1 .. len |->
             IF i > off /\ i <= off + Len(data) THEN data[i - off]
             ELSE IF i <= Len(content) THEN content[i] ELSE 0]

\* os.File.WriteAt returns an error on a closed file and for a negative offset
WriteAtFails(st, off) == st.closed \/ off < 0

OriginOfChunk(st, m) == m.fromWatch

\* state.fromWatch: the flag of the chunk the transferState was created for
Origin(st, m) == st.fromWatch

\* the deferred cleanup of finalize: close the temp file and unlink it
Cleanup(fs, id) == [fs EXCEPT ![id].closed = TRUE]

\* Node.handleDataTransfer, to the end of its first critical section: the
\* transferState of (peer, hash) is looked up, or created with a fresh temp file
handleDataTransfer(e) ==
  /\ Reading(e)
  /\ Head(wire[e]).type = "data_transfer"
  /\ LET n == Owner(e)
         m == Head(wire[e])
         key == TransferKey(e, m.contentHash)
     IN /\ wire' = [wire EXCEPT ![e] = Tail(@)]
        /\ IF key \in DOMAIN transfers[n]
             THEN /\ rl' = [rl EXCEPT ![e] =
                              [pc |-> "write", msg |-> m, st |-> transfers[n][key]]]
                  /\ UNCHANGED <<transfers, files>>
             ELSE /\ rl' = [rl EXCEPT ![e] =
                              [pc |-> "write", msg |-> m, st |-> NewFileId]]
                  /\ files' = Put(files, NewFileId, NewTransferState(m.fromWatch))
                  /\ transfers' = [transfers EXCEPT ![n] = Put(@, key, NewFileId)]
  /\ UNCHANGED <<nodeVars, conns, registry, pstate, store, downloads, hist, budget,
                 lastErr>>
  /\ UNCHANGED compVars

\* Node.handleDataTransfer, the rest: the chunk is written at its offset and
\* counted; a final chunk goes on to finalize by the origin of the state
writeChunk(e) ==
  /\ rl[e].pc = "write"
  /\ LET m == rl[e].msg
         id == rl[e].st
     IN IF WriteAtFails(files[id], m.chunkIndex * TransferChunk)
          THEN /\ rl' = [rl EXCEPT ![e] = Idle]
               /\ files' = Collect(files, rl', transfers)
               /\ lastErr' = [lastErr EXCEPT ![e] = "failed to write chunk"]
          ELSE /\ files' = [files EXCEPT ![id] =
                    [@ EXCEPT !.content = WriteAt(@, m.data,
                                                  m.chunkIndex * TransferChunk),
                              !.chunks = @ \cup {m.chunkIndex},
                              !.received = @ + 1]]
               /\ rl' = [rl EXCEPT ![e] =
                    IF m.finalChunk
                      THEN [pc |-> IF Origin(files[id], m) THEN "finW" ELSE "finD",
                            msg |-> m, st |-> 0]
                      ELSE Idle]
               /\ lastErr' = [lastErr EXCEPT ![e] =
                                IF m.finalChunk THEN @ ELSE None]
  /\ UNCHANGED <<nodeVars, conns, registry, pstate, wire, store, downloads, transfers,
                 hist, budget>>
  /\ UNCHANGED compVars

\* hash != expectedHash is false
HashMatches(content, h) == ContentHash(content) = h

\* finalizeWatchTransfer and finalizeDownload, to the hash comparison: the
\* state is taken out of the map, the temp file is hashed from its start
finalizeVerify(e) ==
  /\ rl[e].pc \in {"finW", "finD"}
  /\ LET n == Owner(e)
         h == rl[e].msg.contentHash
         key == TransferKey(e, h)
     IN IF key \notin DOMAIN transfers[n]
          THEN /\ rl' = [rl EXCEPT ![e] = Idle]
               /\ lastErr' = [lastErr EXCEPT ![e] = "transfer state not found"]
               /\ UNCHANGED <<transfers, files>>
          ELSE LET id == transfers[n][key]
               IN /\ transfers' = [transfers EXCEPT ![n] = Drop(@, key)]
                  /\ IF HashMatches(files[id].content, h)
                       THEN /\ rl' = [rl EXCEPT ![e] =
                                 [pc |-> IF rl[e].pc = "finW" THEN "commitW"
                                                              ELSE "commitD",
                                  msg |-> rl[e].msg, st |-> id]]
                            /\ UNCHANGED <<files, lastErr>>
                       ELSE /\ rl' = [rl EXCEPT ![e] = Idle]
                            /\ files' = Collect(Cleanup(files, id), rl', transfers')
                            /\ lastErr' = [lastErr EXCEPT ![e] =
                                             "content hash mismatch"]
  /\ UNCHANGED <<nodeVars, conns, registry, pstate, wire, store, downloads, hist, budget>>
  /\ UNCHANGED compVars

\* finalizeWatchTransfer, after the comparison: the temp file is read again
\* from its start into the store, then closed and unlinked
finalizeWatchTransfer(e) ==
  /\ rl[e].pc = "commitW"
  /\ LET n == Owner(e)
         id == rl[e].st
     IN /\ store' = [store EXCEPT ![n] =
                       StoreStore(@, rl[e].msg.contentHash, files[id].content)]
        /\ rl' = [rl EXCEPT ![e] = Idle]
        /\ files' = Collect(Cleanup(files, id), rl', transfers)
        /\ hist' = [hist EXCEPT ![n].received = @ \cup {rl[e].msg.contentHash}]
        /\ lastErr' = [lastErr EXCEPT ![e] = None]
  /\ UNCHANGED <<nodeVars, conns, registry, pstate, wire, downloads, transfers, budget>>
  /\ UNCHANGED compVars

\* finalizeDownload, after the comparison: downloads/<hash> is created and the
\* temp file decrypted into it; a failed decryption removes the output
finalizeDownload(e) ==
  /\ rl[e].pc = "commitD"
  /\ LET n == Owner(e)
         id == rl[e].st
         h == rl[e].msg.contentHash
         dec == DecryptStream(networkKey[n], files[id].content)
     IN /\ IF ~downloads[n].dir
             THEN /\ UNCHANGED downloads
                  /\ lastErr' = [lastErr EXCEPT ![e] = "failed to create final file"]
             ELSE IF dec.ok
               THEN /\ downloads' = [downloads EXCEPT ![n].f = Put(@, h, dec.out)]
                    /\ lastErr' = [lastErr EXCEPT ![e] = None]
               ELSE /\ downloads' = [downloads EXCEPT ![n].f = Drop(@, h)]
                    /\ lastErr' = [lastErr EXCEPT ![e] = "failed to decrypt file"]
        /\ rl' = [rl EXCEPT ![e] = Idle]
        /\ files' = Collect(Cleanup(files, id), rl', transfers)
  /\ UNCHANGED <<nodeVars, conns, registry, pstate, wire, store, transfers, hist, budget>>
  /\ UNCHANGED compVars

\* ------------------------------------------------------------- faults in flight
\* a chunk in flight arrives with other bytes
Corrupt(e, i, d) ==
  /\ budget.faults > 0
  /\ i \in 1 .. Len(wire[e])
  /\ wire[e][i].type = "data_transfer"
  /\ d # wire[e][i].data
  /\ wire' = [wire EXCEPT ![e][i].data = d]
  /\ budget' = [budget EXCEPT !.faults = @ - 1]
  /\ UNCHANGED <<nodeVars, conns, registry, pstate, rl, dataVars, lastErr>>
  /\ UNCHANGED compVars

\* a chunk in flight does not arrive
Lose(e, i) ==
  /\ budget.faults > 0
  /\ i \in 1 .. Len(wire[e])
  /\ wire[e][i].type = "data_transfer"
  /\ wire' = [wire EXCEPT ![e] =
                SubSeq(@, 1, i - 1) \o SubSeq(@, i + 1, Len(@))]
  /\ budget' = [budget EXCEPT !.faults = @ - 1]
  /\ UNCHANGED <<nodeVars, conns, registry, pstate, rl, dataVars, lastErr>>
  /\ UNCHANGED compVars

\* ------------------------------------------------------------- initial states
\* NewNode: a fresh random key, isFirstNode from the command line, keyReady
\* closed on a first node, empty maps, an empty store
InitNode(S) ==
  /\ started = S
  /\ isFirstNode \in [Nodes -> BOOLEAN]
  /\ localKey \in [Nodes -> Keys]
  /\ networkKey = localKey
  /\ keyReady = isFirstNode
  /\ peers = [n \in Nodes |-> <<>>]
  /\ conns = [c \in ConnIds |-> NoConn]
  /\ registry = [n \in Nodes |-> {}]
  /\ wire = [e \in Endpoints |-> <<>>]
  /\ rl = [e \in Endpoints |-> Idle]
  /\ pstate = [e \in Endpoints |-> NoPeer]
  /\ send = NoSend
  /\ disk = NoDisk
  /\ crypt = NoCrypt
  /\ codec = NoMessage
  /\ nstate = [n \in Nodes |-> [stopped |-> FALSE, fault |-> None, dialing |-> <<>>]]
  /\ store = [n \in Nodes |-> <<>>]
  /\ downloads = [n \in Nodes |-> [dir |-> FALSE, f |-> <<>>]]
  /\ transfers = [n \in Nodes |-> <<>>]
  /\ files = <<>>
  /\ hist = [n \in Nodes |-> [watched |-> {}, received |-> {}, cmds |-> 0,
                               bcastErr |-> None]]
  /\ lastErr = [e \in Endpoints |-> None]

\* the keys the nodes generated: that of A, and another one
KeyOfA == CHOOSE k \in Keys : TRUE
KeyOfOthers == CHOOSE k \in Keys : k # KeyOfA

NoBudget == [dials |-> 0, ops |-> 0, faults |-> 0]

\* key bootstrap: three nodes, any mix of first nodes and joiners, any keys
\* (up to the names of the nodes and of the keys), any dials
InitKey ==
  /\ InitNode(Nodes)
  /\ isFirstNode["C"] => isFirstNode["B"]
  /\ isFirstNode["B"] => isFirstNode["A"]
  /\ localKey["A"] = KeyOfA
  /\ budget = [NoBudget EXCEPT !.dials = MaxDials]

NextKey ==
  \/ \E n, m \in Nodes : Connect(n, m)
  \/ \E c \in ConnIds : Accept(c)
  \/ \E e \in Endpoints : handleHandshake(e)

SpecKey == InitKey /\ [][NextKey]_vars

\* ------------------------------------------------------------- scenarios
\* file contents: one that encrypts to exactly one chunk, a longer one
Plains == {<<1>>, <<1, 0>>}

\* the files that appear in a watch directory: those, and the empty file
WatchFiles == Plains \cup {<<>>}
Chunks == SeqsUpTo(Bytes, TransferChunk)

\* the hashes a user can ask for: those of the objects some node stores
KnownHashes == UNION {DOMAIN store[n] : n \in Nodes}

\* node A started without a peer address, node B with the address of A
InitAB ==
  /\ InitNode({"A", "B"})
  /\ isFirstNode = [n \in Nodes |-> n = "A"]
  /\ localKey = [n \in Nodes |-> IF n = "A" THEN KeyOfA ELSE KeyOfOthers]

\* replication between A and B over one connection
Init ==
  /\ InitAB
  /\ budget = [dials |-> 1, ops |-> MaxOps, faults |-> 0]

Protocol ==
  \/ \E c \in ConnIds : Accept(c)
  \/ \E e \in Endpoints : handleHandshake(e)
  \/ \E e \in Endpoints : handleData(e)
  \/ \E e \in Endpoints : handleDataRequest(e)
  \/ \E e \in Endpoints : handleDataTransfer(e)
  \/ \E e \in Endpoints : writeChunk(e)
  \/ \E e \in Endpoints : finalizeVerify(e)
  \/ \E e \in Endpoints : finalizeWatchTransfer(e)

Next ==
  \/ Connect("B", "A")
  \/ Protocol
  \/ \E e \in Endpoints : finalizeDownload(e)
  \/ \E p \in Plains, iv \in IVs : handleNewFile("A", p, iv)
  \/ \E n \in Nodes, p \in Plains, iv \in IVs : StoreFile(n, p, iv)
  \/ \E n \in Nodes, h \in KnownHashes : GetFile(n, h)

Spec == Init /\ [][Next]_vars

\* B has dialed A twice, a file appears at A, a chunk is damaged in flight
InitRace ==
  /\ InitAB
  /\ budget = [dials |-> MaxDials, ops |-> 1, faults |-> MaxFaults]

NextRace ==
  \/ Connect("B", "A")
  \/ Protocol
  \/ \E p \in WatchFiles, iv \in IVs : handleNewFile("A", p, iv)
  \/ \E e \in Endpoints : \E i \in DOMAIN wire[e], d \in Chunks : Corrupt(e, i, d)
  \/ \E e \in Endpoints : \E i \in DOMAIN wire[e] : Lose(e, i)

SpecRace == InitRace /\ [][NextRace]_vars

\* Peer.readLoop: decode the next message and run its handler to the end
readLoop(e) ==
  \/ handleHandshake(e)
  \/ handleData(e)
  \/ handleDataRequest(e)
  \/ handleDataTransfer(e)
  \/ writeChunk(e)
  \/ finalizeVerify(e)
  \/ finalizeWatchTransfer(e)
  \/ finalizeDownload(e)

\* files appear at A while B is, or gets, connected to it; the accept loop
\* and every read loop are goroutines that run when they can
InitLive ==
  /\ InitAB
  /\ budget = [dials |-> 1, ops |-> MaxDrops, faults |-> 0]

NextLive ==
  \/ Connect("B", "A")
  \/ Protocol
  \/ \E p \in WatchFiles, iv \in IVs : handleNewFile("A", p, iv)

Fairness ==
  /\ \A c \in ConnIds : WF_vars(Accept(c))
  /\ \A e \in Endpoints : WF_vars(readLoop(e))

SpecLive == InitLive /\ [][NextLive]_vars /\ Fairness

\* ------------------------------------------------------------- key claims
Dialer(c) == conns[c].dialer
Listener(c) == conns[c].listener

\* the messages in flight
InFlight == UNION {{wire[e][i] : i \in 1 .. Len(wire[e])} : e \in Endpoints}

\* C7: two nodes that exchanged handshakes over a connection and are both
\* key-ready hold the same network key, whoever dialed and however the two
\* were started.
C7_KeyAgreement ==
  \A c \in ConnIds :
    (/\ conns[c] # NoConn
     /\ conns[c].gotDial /\ conns[c].gotResp
     /\ keyReady[Dialer(c)] /\ keyReady[Listener(c)])
    => networkKey[Dialer(c)] = networkKey[Listener(c)]

\* C8: once a joiner has adopted a network key, no later handshake changes
\* its networkKey.
C8_KeyImmutable ==
  [][\A n \in Nodes :
       (~isFirstNode[n] /\ keyReady[n]) => networkKey'[n] = networkKey[n]]_vars

\* the dialer of c handles the first handshake response on c in this step
FirstResponse(c) ==
  /\ conns[c] # NoConn
  /\ ~conns[c].gotResp
  /\ conns'[c].gotResp

\* C9 as claimed: a joiner that dials any node that held the network key at
\* dial time (a first node or a joiner that had adopted it) adopts that key
\* and is key-ready once it has handled the first handshake response.
C9_AdoptFromAnyHolder ==
  [][\A c \in ConnIds :
       (FirstResponse(c) /\ ~isFirstNode[Dialer(c)] /\ conns[c].hadKey)
       => (keyReady'[Dialer(c)]
           /\ networkKey'[Dialer(c)] = networkKey[Listener(c)])]_vars

\* C9 as amended: a joiner that dials a first node adopts the first node's key
\* and is key-ready once it has handled the first handshake response it gets
\* from that node.
C9_AdoptFromFirstNode ==
  [][\A c \in ConnIds :
       (FirstResponse(c) /\ ~isFirstNode[Dialer(c)] /\ isFirstNode[Listener(c)])
       => (keyReady'[Dialer(c)]
           /\ networkKey'[Dialer(c)] = networkKey[Listener(c)])]_vars

C9_Witness ==
  \E c \in ConnIds :
    /\ conns[c] # NoConn /\ conns[c].gotResp
    /\ ~isFirstNode[Dialer(c)] /\ isFirstNode[Listener(c)]
    /\ keyReady[Dialer(c)]
    /\ networkKey[Dialer(c)] # localKey[Dialer(c)]
    /\ networkKey[Dialer(c)] = networkKey[Listener(c)]

\* C10: a handshake in flight carries a key exactly when it is a response
\* sent by a first node; a dial-time handshake carries neither a key nor
\* known peers, and a joiner never sends a key, adopted or not.
C10_KeyOnlyFromFirstNode ==
  \A m \in InFlight :
    m.type = "handshake" =>
      /\ (m.key # NoKey) <=> (~m.dial /\ isFirstNode[m.sender])
      /\ m.dial => (m.key = NoKey /\ m.knownPeers = {})

C10_Witness ==
  /\ \E m \in InFlight :
       /\ m.type = "handshake" /\ ~m.dial /\ m.key = NoKey
       /\ ~isFirstNode[m.sender] /\ keyReady[m.sender]
  /\ \E m \in InFlight :
       m.type = "handshake" /\ m.dial /\ isFirstNode[m.sender]

\* ------------------------------------------------------------- data claims
\* C1: every object in a node's store is complete and named by the hash of
\* its bytes, whatever the interleaving of ingests and inbound chunks.
C1_StoreIntegrity ==
  \A n \in Nodes : \A h \in DOMAIN store[n] : ContentHash(store[n][h]) = h

\* the handler of e leaves finalize in this step
FinalizeEnds(e) ==
  /\ rl[e].pc \in {"finW", "finD", "commitW", "commitD"}
  /\ rl'[e].pc = "idle"

\* the transferState finalize works on: the one it finds under the key, then
\* the one it took
FinalizeState(e) ==
  IF rl[e].pc \in {"finW", "finD"}
    THEN LET key == TransferKey(e, rl[e].msg.contentHash)
         IN IF key \in DOMAIN transfers[Owner(e)]
              THEN transfers[Owner(e)][key] ELSE 0
    ELSE rl[e].st

\* C2: when finalize ends on a temp file whose bytes are not the content the
\* hash announces, it ends with a hash mismatch, the store and downloads/ are
\* as before and the temp file is gone.
C2_TransferIntegrity ==
  [][\A e \in Endpoints :
       (/\ FinalizeEnds(e)
        /\ FinalizeState(e) # 0
        /\ ContentHash(files[FinalizeState(e)].content) # rl[e].msg.contentHash)
       => (/\ lastErr'[e] = "content hash mismatch"
           /\ store'[Owner(e)] = store[Owner(e)]
           /\ downloads'[Owner(e)] = downloads[Owner(e)]
           /\ \/ FinalizeState(e) \notin DOMAIN files'
              \/ files'[FinalizeState(e)].closed)]_vars

\* the read loop of e handles a message of type t in this step
Handles(e, t) ==
  /\ Reading(e)
  /\ Head(wire[e]).type = t
  /\ wire'[e] = Tail(wire[e])

\* what the handler of e sent to its peer in this step
Sent(e) ==
  SubSeq(wire'[Other(e)], Len(wire[Other(e)]) + 1, Len(wire'[Other(e)]))

\* C3: the chunks sent for a data_request served from a stored object hold
\* exactly one chunk marked final, and it is the last one.
C3_ExactlyOneFinal ==
  [][\A e \in Endpoints :
       (Handles(e, "data_request")
        /\ Head(wire[e]).contentHash \in DOMAIN store[Owner(e)])
       => (/\ Sent(e) # <<>>
           /\ Sent(e)[Len(Sent(e))].finalChunk
           /\ \A i \in 1 .. Len(Sent(e)) - 1 : ~Sent(e)[i].finalChunk)]_vars

PlainOf(n, cipher) == DecryptStream(networkKey[n], cipher).out

\* the announcement at the head of e is of a second drop: the announcer
\* ingested it from its watch directory, and the receiver holds an object it
\* received that the announcer ingested from a file of the same contents
SecondDrop(e) ==
  LET m == Head(wire[e])
      a == m.sender
      b == Owner(e)
  IN /\ m.contentHash \in hist[a].watched
     /\ m.contentHash \in DOMAIN store[a]
     /\ \E h \in hist[a].watched \cap hist[b].received :
          /\ h \in DOMAIN store[a] /\ h \in DOMAIN store[b]
          /\ PlainOf(a, store[b][h]) = PlainOf(a, store[a][m.contentHash])

\* C6: after a file ingested from A's watch directory has been replicated to
\* B, the announcement of a second drop of the same contents at A makes B
\* send no data_request.
C6_NoRequestForSameContents ==
  [][\A e \in Endpoints :
       (Handles(e, "data") /\ SecondDrop(e)) => Sent(e) = <<>>]_vars

\* the hashes of the objects A can ingest from its watch directory
ObjectHashes ==
  {ContentHash(EncryptStream(KeyOfA, iv, p)) : iv \in IVs, p \in WatchFiles}

\* A has announced to B, over a connection B dialed, an object it ingested
\* from its watch directory whose length is no multiple of the chunk size
Announced(h) ==
  /\ h \in hist["A"].watched /\ h \in DOMAIN store["A"]
  /\ Len(store["A"][h]) % TransferChunk # 0
  /\ \E c \in ConnIds :
       /\ conns[c] # NoConn /\ Dialer(c) = "B" /\ Listener(c) = "A"
       /\ \E i \in DOMAIN wire[<<c, "d">>] :
            /\ wire[<<c, "d">>][i].type = "data"
            /\ wire[<<c, "d">>][i].contentHash = h

Replicated(h) ==
  /\ h \in DOMAIN store["B"] /\ h \in DOMAIN store["A"]
  /\ store["B"][h] = store["A"][h]

\* C4: when B has dialed A and A announces to B a file that appeared in its
\* watch directory, with a ciphertext that is no exact multiple of the chunk
\* size, B's store eventually holds the same bytes under the same hash.
C4_Replication == \A h \in ObjectHashes : Announced(h) ~> Replicated(h)

\* an object of more than one chunk went from A's watch directory to B
C4_Witness ==
  \E h \in hist["A"].watched \cap hist["B"].received :
    /\ Replicated(h)
    /\ Len(store["B"][h]) > TransferChunk
    /\ Len(store["B"][h]) % TransferChunk # 0

\* ------------------------------------------------------------- key gating
\* the joiner B gets files in its watch directory and store and get commands
\* while it dials the first node A
InitGate ==
  /\ InitAB
  /\ budget = [dials |-> 1, ops |-> MaxOps, faults |-> 0]

NextGate ==
  \/ Connect("B", "A")
  \/ Protocol
  \/ \E p \in WatchFiles, iv \in IVs : handleNewFile("B", p, iv)
  \/ \E p \in Plains, iv \in IVs : StoreFile("B", p, iv)
  \/ \E h \in ObjectHashes : GetFile("B", h)

SpecGate == InitGate /\ [][NextGate]_vars

\* node n runs a watch event or a user command in this step
Runs(n) == hist'[n].cmds # hist[n].cmds

\* C11: a watch ingest, a StoreFile and a GetFile on a joiner whose key-ready
\* signal is not set add no object to its store, create no temp file and
\* send no message; so a joiner encrypts nothing before it has the key.
C11_KeyGating ==
  [][\A n \in Nodes :
       (Runs(n) /\ ~isFirstNode[n] /\ ~keyReady[n])
       => (store' = store /\ wire' = wire /\ files' = files
           /\ hist'[n].watched = hist[n].watched)]_vars

\* the joiner, connected to A, has run its commands without the key, a get
\* among them
C11_Witness ==
  /\ hist["B"].cmds = MaxOps
  /\ ~keyReady["B"]
  /\ registry["B"] # {}
  /\ downloads["B"].dir
  /\ store["B"] = <<>>

\* ------------------------------------------------------------- user fetch
\* n has dialed m
Linked(n, m) ==
  \E c \in ConnIds : conns[c] # NoConn /\ Dialer(c) = n /\ Listener(c) = m

\* n has dialed m and both ends have handled a handshake of the other
Joined(n, m) ==
  \E c \in ConnIds :
    /\ conns[c] # NoConn /\ Dialer(c) = n /\ Listener(c) = m
    /\ conns[c].accepted /\ conns[c].gotDial /\ conns[c].gotResp

\* B and C have joined A and adopted its key, C has also joined B
MeshUp ==
  /\ Joined("B", "A") /\ Joined("C", "A") /\ Joined("C", "B")
  /\ keyReady["B"] /\ keyReady["C"]

\* the first node A, the joiners B and C
InitFetch ==
  /\ InitNode(Nodes)
  /\ isFirstNode = [n \in Nodes |-> n = "A"]
  /\ localKey = [n \in Nodes |-> IF n = "A" THEN KeyOfA ELSE KeyOfOthers]
  /\ budget = [dials |-> MaxConns, ops |-> MaxOps, faults |-> 0]

\* B joins A, then C joins A and B; then the user of B stores a file and the
\* user of C asks for it, once or again
NextFetch ==
  \/ ~Linked("B", "A") /\ Connect("B", "A")
  \/ ~Linked("C", "A") /\ keyReady["B"] /\ Connect("C", "A")
  \/ ~Linked("C", "B") /\ keyReady["C"] /\ Connect("C", "B")
  \/ \E c \in ConnIds : Accept(c)
  \/ \E e \in Endpoints : handleHandshake(e)
  \/ \E e \in Endpoints : handleDataRequest(e)
  \/ \E e \in Endpoints : handleDataTransfer(e)
  \/ \E e \in Endpoints : writeChunk(e)
  \/ \E e \in Endpoints : finalizeVerify(e)
  \/ \E e \in Endpoints : finalizeDownload(e)
  \/ MeshUp /\ store["B"] = <<>>
            /\ \E p \in Plains, iv \in IVs : StoreFile("B", p, iv)
  \/ MeshUp /\ \E h \in DOMAIN store["B"] : GetFile("C", h)

SpecFetch == InitFetch /\ [][NextFetch]_vars /\ Fairness

\* C has asked B for h, an object of B alone whose length is no multiple of
\* the chunk size
Asked(h) ==
  /\ MeshUp
  /\ h \in DOMAIN store["B"] /\ h \notin DOMAIN store["A"]
  /\ h \notin DOMAIN store["C"]
  /\ Len(store["B"][h]) % TransferChunk # 0
  /\ \E c \in ConnIds :
       /\ conns[c] # NoConn /\ Dialer(c) = "C" /\ Listener(c) = "B"
       /\ \E i \in DOMAIN wire[<<c, "l">>] :
            /\ wire[<<c, "l">>][i].type = "data_request"
            /\ wire[<<c, "l">>][i].contentHash = h
            /\ ~wire[<<c, "l">>][i].fromWatch

\* downloads/<h> at C holds the plaintext that B encrypted into h
Fetched(h) ==
  /\ h \in DOMAIN downloads["C"].f
  /\ \E p \in Plains, iv \in IVs :
       /\ ContentHash(EncryptStream(networkKey["B"], iv, p)) = h
       /\ downloads["C"].f[h] = p

\* C12: with the first node A and the joiners B and C, both holding A's key
\* and C connected to both, a GetFile at C of an object only B stores (its
\* length no exact multiple of the chunk size) ends with downloads/<h> at C
\* holding the original plaintext.
C12_UserFetch ==
  (\E h \in DOMAIN store["B"] : Asked(h))
    ~> (\A h \in DOMAIN store["B"] :
          Len(store["B"][h]) % TransferChunk # 0 => Fetched(h))

\* C has fetched an object of more than one chunk from B
C12_Witness ==
  \E h \in DOMAIN store["B"] :
    /\ Fetched(h)
    /\ Len(store["B"][h]) > TransferChunk
    /\ h \notin DOMAIN store["A"] /\ h \notin DOMAIN store["C"]

\* ------------------------------------------------------------- peer and node life
MaxStops == 1
MaxInjects == 1

\* Peer.Close: close(p.done), then p.conn.Close().  Closing a channel that is
\* already closed panics.
CloseFaults(e) == pstate[e].done

Closed(p) == [p EXCEPT !.done = TRUE, !.open = FALSE, !.closes = @ + 1]

\* the records a remote program can write that this program never writes:
\* bytes that are not a JSON message, a message of an unknown type, a message
\* whose payload does not parse, and announcements and requests whose content
\* hash is shorter than four characters
ForeignMsgs ==
  {[type |-> "garbage"], [type |-> "unknown"], [type |-> "unparsable"],
   [type |-> "data", sender |-> None, contentHash |-> ShortHash, size |-> 0,
    fromWatch |-> FALSE],
   [type |-> "data_request", sender |-> None, contentHash |-> ShortHash,
    fromWatch |-> FALSE]}

\* whatever the remote end of e writes arrives at e
Inject(e, m) ==
  /\ budget.injects > 0
  /\ conns[e[1]] # NoConn /\ Deliverable(Other(e))
  /\ budget' = [budget EXCEPT !.injects = @ - 1]
  /\ wire' = [wire EXCEPT ![e] = Append(@, m)]
  /\ UNCHANGED <<nodeVars, conns, registry, rl, pstate, dataVars, lastErr>>
  /\ UNCHANGED compVars

\* Node.HandleMessage for a message no handler accepts: the default branch,
\* and the handlers' return when ParsePayload fails
HandleMessage(e) ==
  /\ Reading(e)
  /\ Head(wire[e]).type \in {"unknown", "unparsable"}
  /\ wire' = [wire EXCEPT ![e] = Tail(@)]
  /\ lastErr' = [lastErr EXCEPT ![e] =
                   IF Head(wire[e]).type = "unknown"
                     THEN "unknown message type" ELSE "failed to parse payload"]
  /\ UNCHANGED <<nodeVars, conns, registry, rl, pstate, dataVars, budget>>
  /\ UNCHANGED compVars

DecodeFailsOrUnknown(e) ==
  \/ ~pstate[e].open
  \/ wire[e] = <<>> /\ ~pstate[Other(e)].open
  \/ wire[e] # <<>> /\ Head(wire[e]).type \in {"garbage", "unknown"}

\* decoder.Decode returns an error: the connection was closed at this end,
\* the remote end closed it and nothing is left to read, or what arrived is not
\* a JSON message
DecodeFails(e) ==
  \/ ~pstate[e].open
  \/ wire[e] = <<>> /\ ~pstate[Other(e)].open
  \/ wire[e] # <<>> /\ Head(wire[e]).type = "garbage"

\* Peer.readLoop, the branch of a failed Decode: report, p.Close(), return
readLoopFail(e) ==
  /\ pstate[e].loop = "running" /\ rl[e].pc = "idle"
  /\ DecodeFails(e)
  /\ IF CloseFaults(e)
       THEN Panic(Owner(e), ChanClosed, [pstate EXCEPT ![e].closes = @ + 1],
                  nstate)
       ELSE /\ pstate' = [pstate EXCEPT ![e] = [Closed(@) EXCEPT !.loop = "exited"]]
            /\ UNCHANGED <<started, nstate, rl>>
  /\ UNCHANGED <<idVars, conns, registry, wire, dataVars, budget, lastErr>>
  /\ UNCHANGED compVars

\* Peer.readLoop, the branch of the select that finds p.done closed: return
readLoopDone(e) ==
  /\ pstate[e].loop = "running" /\ rl[e].pc = "idle"
  /\ pstate[e].done
  /\ pstate' = [pstate EXCEPT ![e].loop = "exited"]
  /\ UNCHANGED <<nodeVars, conns, registry, wire, rl, dataVars, budget, lastErr>>
  /\ UNCHANGED compVars

\* Node.Stop: close(n.done), then Transport.Stop closes the listener and
\* calls Close on every registered peer, then the watcher is closed
Stop(n) ==
  /\ n \in started
  /\ budget.stops > 0
  /\ budget' = [budget EXCEPT !.stops = @ - 1]
  /\ LET mine == {EndOf(n, c) : c \in registry[n]}
     IN IF \E e \in mine : CloseFaults(e)
          THEN \E e \in {x \in mine : CloseFaults(x)} :
                 Panic(n, ChanClosed, [pstate EXCEPT ![e].closes = @ + 1],
                       [nstate EXCEPT ![n].stopped = TRUE])
          ELSE /\ started' = started \ {n}
               /\ nstate' = [nstate EXCEPT ![n].stopped = TRUE]
               /\ pstate' = [e \in Endpoints |->
                               IF e \in mine THEN Closed(pstate[e]) ELSE pstate[e]]
               /\ UNCHANGED rl
  /\ UNCHANGED <<idVars, conns, registry, wire, dataVars, lastErr>>
  /\ UNCHANGED compVars

\* a first node A and a joiner B that dials it; a user asks for an object
\* nobody has; either node is stopped; a remote program writes a record of
\* its own
\* the hash of an object no node stores
AbsentHash == CHOOSE h \in ObjectHashes : TRUE

InitNet ==
  /\ InitAB
  /\ budget = [dials |-> 1, ops |-> 1, faults |-> 0, stops |-> MaxStops,
               injects |-> MaxInjects]

NextNet ==
  \/ Connect("B", "A")
  \/ \E c \in ConnIds : Accept(c)
  \/ \E e \in Endpoints : handleHandshake(e)
  \/ \E e \in Endpoints : handleData(e)
  \/ \E e \in Endpoints : handleDataRequest(e)
  \/ \E n \in Nodes : GetFile(n, AbsentHash)
  \/ \E n \in Nodes : Stop(n)
  \/ \E e \in Endpoints : readLoopFail(e)
  \/ \E e \in Endpoints : readLoopDone(e)
  \/ \E e \in Endpoints, m \in ForeignMsgs : Inject(e, m)
  \/ \E e \in Endpoints : HandleMessage(e)

SpecNet == InitNet /\ [][NextNet]_vars

\* the endpoints of the peers registered at node n
PeersOf(n) == {EndOf(n, c) : c \in registry[n]}

\* C13: once Node.Stop was called at a node, every peer registered there is
\* closed and no panic was raised at that node, neither in Stop nor in a read
\* loop that observes the closed connection
C13_StopIsClean ==
  \A n \in Nodes :
    nstate[n].stopped =>
      /\ nstate[n].fault = None
      /\ \A e \in PeersOf(n) : pstate[e].done /\ ~pstate[e].open

\* C14: a peer on which Close was called, once or more often, is closed, and
\* no call of Close ended its node with a panic
C14_CloseIdempotent ==
  \A e \in Endpoints :
    pstate[e].closes >= 1 =>
      /\ pstate[e].done /\ ~pstate[e].open
      /\ nstate[Owner(e)].fault # ChanClosed

\* C18: every peer registered at a running node has an open connection
C18_RegistryLive ==
  \A n \in started : \A e \in PeersOf(n) : pstate[e].open

\* C19: no node ends with the panic of a slice expression in hashToPath,
\* whatever content hash a remote announcement or request carries
C19_ShortHashHarmless ==
  \A n \in Nodes : nstate[n].fault # SliceBounds

\* the handler of the read loop of e returns in this step
Returns(e) ==
  /\ rl'[e].pc = "idle"
  /\ nstate' = nstate
  /\ \/ Reading(e) /\ wire'[e] = Tail(wire[e])
     \/ rl[e].pc # "idle"

\* the stream of e has ended, or what comes next on it is no record
StreamEnds(e) ==
  \/ ~pstate[e].open
  \/ wire[e] = <<>> /\ ~pstate[Other(e)].open
  \/ wire[e] # <<>> /\ Head(wire[e]).type = "garbage"

\* C17: a read loop that closes its peer and exits does so on a failed decode
\* or at the end of the stream only; when a handler returns an error the peer
\* stays as it was, open, with its read loop ready for the next message
C17_HandlerErrorsKeepPeer ==
  [][\A e \in Endpoints :
       /\ (/\ pstate[e].loop = "running" /\ pstate'[e].loop = "exited"
           /\ pstate'[e].closes > pstate[e].closes) => StreamEnds(e)
       /\ (Returns(e) /\ lastErr'[e] # None) =>
            /\ pstate'[e] = pstate[e]
            /\ pstate'[e].open /\ pstate'[e].loop = "running"]_vars

\* B's handler has rejected a message of an unknown type; the peer is open,
\* its read loop runs, and the handshake response of A is next on the stream
C17_Witness ==
  \E e \in Endpoints :
    /\ Owner(e) = "B" /\ lastErr[e] = "unknown message type"
    /\ pstate[e].open /\ pstate[e].loop = "running" /\ pstate[e].closes = 0
    /\ Reading(e) /\ Head(wire[e]).type = "handshake"

\* a first node A with the joiners B and C connected to it; C is stopped,
\* read loops end; the user of A asks for objects nobody has
InitCast ==
  /\ InitNode(Nodes)
  /\ isFirstNode = [n \in Nodes |-> n = "A"]
  /\ localKey = [n \in Nodes |-> IF n = "A" THEN KeyOfA ELSE KeyOfOthers]
  /\ budget = [dials |-> MaxConns, ops |-> MaxOps, faults |-> 0,
               stops |-> MaxStops]

NextCast ==
  \/ ~Linked("B", "A") /\ Connect("B", "A")
  \/ ~Linked("C", "A") /\ Connect("C", "A")
  \/ \E c \in ConnIds : Accept(c)
  \/ \E e \in Endpoints : handleHandshake(e)
  \/ \E e \in Endpoints : handleDataRequest(e)
  \/ GetFile("A", AbsentHash)
  \/ Stop("C")
  \/ \E e \in Endpoints : readLoopFail(e)
  \/ \E e \in Endpoints : readLoopDone(e)

SpecCast == InitCast /\ [][NextCast]_vars

\* the one message that, in this step, went out to every peer of n that can
\* be sent to, and to no other peer
SentToAll(n, m) ==
  \A e \in Endpoints :
    wire'[e] = IF \E p \in PeersOf(n) : e = Other(p) /\ Deliverable(p)
                 THEN Append(wire[e], m) ELSE wire[e]

\* C15: a broadcast of A (here every GetFile of A, whose store is empty)
\* reaches every registered peer it can be sent to, whatever sends fail, and
\* returns no error; with no registered peer nothing is sent
C15_BroadcastToAll ==
  [][Runs("A") =>
       /\ SentToAll("A", DataRequestMsg("A", AbsentHash, FALSE))
       /\ hist'["A"].bcastErr = None]_vars

\* A has broadcast with two peers registered: the one of C was closed by its
\* read loop, and the request is on its way to B
C15_Witness ==
  \E b, c \in PeersOf("A") :
    /\ Owner(Other(b)) = "B" /\ Owner(Other(c)) = "C"
    /\ ~pstate[c].open /\ pstate[b].open
    /\ hist["A"].cmds > 0
    /\ wire[Other(b)] # <<>>
    /\ Head(wire[Other(b)]).type = "data_request"
    /\ \A i \in DOMAIN wire[Other(c)] : wire[Other(c)][i].type # "data_request"

\* ------------------------------------------------------------- concurrent senders
\* the connection takes a record in this many writes
RecordFrags == 2

\* the messages each goroutine sends
MaxSends == 2

MutexAlwaysFree(m) == TRUE

\* p.mu.Lock() returns when no goroutine holds the mutex
MutexFree(m) == m = None

\* Peer.Send: p.mu.Lock()
SendLock(t) ==
  /\ send.at[t] = 0 /\ send.sent[t] < MaxSends
  /\ MutexFree(send.mu)
  /\ send' = [send EXCEPT !.mu = t, !.at[t] = 1]
  /\ UNCHANGED <<nodeVars, netVars, dataVars, disk, crypt, codec, budget, lastErr>>

\* Peer.Send: Encode writes the next part of the record to the connection
SendWrite(t) ==
  /\ send.at[t] \in 1 .. RecordFrags
  /\ send' = [send EXCEPT
                !.stream = Append(@, [by |-> t, msg |-> send.sent[t] + 1,
                                      frag |-> send.at[t]]),
                !.at[t] = @ + 1]
  /\ UNCHANGED <<nodeVars, netVars, dataVars, disk, crypt, codec, budget, lastErr>>

\* Peer.Send: the deferred p.mu.Unlock()
SendUnlock(t) ==
  /\ send.at[t] = RecordFrags + 1
  /\ send' = [send EXCEPT !.mu = None, !.at[t] = 0, !.sent[t] = @ + 1]
  /\ UNCHANGED <<nodeVars, netVars, dataVars, disk, crypt, codec, budget, lastErr>>

\* the handler, the watch ingest and the user command of one node send to the
\* same peer
InitSend == InitAB /\ budget = NoBudget

NextSend ==
  \/ \E t \in Threads : SendLock(t)
  \/ \E t \in Threads : SendWrite(t)
  \/ \E t \in Threads : SendUnlock(t)

SpecSend == InitSend /\ [][NextSend]_vars

\* C16: what the remote side reads is a concatenation of whole records: a
\* first fragment follows the last fragment of the record before it, every
\* other fragment follows its predecessor in the same record
C16_WholeRecords ==
  \A i \in DOMAIN send.stream :
    LET f == send.stream[i]
    IN IF f.frag = 1
         THEN i > 1 => send.stream[i - 1].frag = RecordFrags
         ELSE /\ i > 1
              /\ send.stream[i - 1] = [f EXCEPT !.frag = @ - 1]

\* two goroutines have sent to the peer one after the other, the second still
\* holds the mutex, and both their records are on the stream
C16_Witness ==
  \E t, u \in Threads :
    /\ t # u
    /\ send.sent[t] >= 1 /\ send.at[u] = RecordFrags + 1
    /\ \E v \in Threads \ {t, u} : send.at[v] = 0 /\ send.sent[v] = 0
    /\ Len(send.stream) = 2 * RecordFrags

\* ------------------------------------------------------------- the store on disk
\* the length of a content hash, in characters
HashLen == 5

\* the calls made on the store
MaxStoreOps == 3

\* content hashes: strings of one length that differ from the first of them in
\* at most one character, so that some share both directories, some one, some
\* none
StoreHashes ==
  {h \in [1 .. HashLen -> {"a", "b"}] :
     Cardinality({i \in 1 .. HashLen : h[i] = "b"}) <= 1}

\* the elements of a path string: what stands between its separators
RECURSIVE Split(_)
Split(str) ==
  IF str = <<>> THEN <<>>
  ELSE LET cut == IF \E i \in DOMAIN str : str[i] = "/"
                    THEN CHOOSE i \in DOMAIN str :
                           str[i] = "/" /\ \A j \in 1 .. i - 1 : str[j] # "/"
                    ELSE Len(str) + 1
       IN (IF cut > 1 THEN <<SubSeq(str, 1, cut - 1)>> ELSE <<>>)
          \o Split(SubSeq(str, cut + 1, Len(str)))

\* filepath.Join below the base directory: the elements of all the parts,
\* empty ones dropped
RECURSIVE Join(_)
Join(parts) ==
  IF parts = <<>> THEN <<>> ELSE Split(Head(parts)) \o Join(Tail(parts))

\* filepath.ToSlash of a relative path: its elements with separators between
RECURSIVE Slash(_)
Slash(path) ==
  IF Len(path) <= 1 THEN (IF path = <<>> THEN <<>> ELSE path[1])
  ELSE path[1] \o <<"/">> \o Slash(Tail(path))

hashToPathFlat(h) == <<SubSeq(h, 1, 2), SubSeq(h, 3, 4)>>

\* Store.hashToPath: base/<first two>/<next two>/<rest>
hashToPath(h) ==
  Join(<<SubSeq(h, 1, 2), SubSeq(h, 3, 4), SubSeq(h, 5, Len(h))>>)

\* filepath.Dir, and the directories MkdirAll makes for a path
Dir(path) == SubSeq(path, 1, Len(path) - 1)
Parents(path) == {SubSeq(path, 1, k) : k \in 1 .. Len(path) - 1}

\* os.Stat succeeds on whatever is at the path
ExistsAt(d, h) == hashToPath(h) \in DOMAIN d.files \/ hashToPath(h) \in d.dirs

\* os.Open and a read to the end
LoadAt(d, h) ==
  IF hashToPath(h) \in DOMAIN d.files
    THEN [ok |-> TRUE, bytes |-> d.files[hashToPath(h)]]
    ELSE [ok |-> FALSE, bytes |-> <<>>]

\* a directory with nothing in it
Empty(fs, ds, dir) ==
  /\ \A f \in DOMAIN fs : Dir(f) # dir
  /\ \A x \in ds : x = dir \/ Dir(x) # dir

\* what the calls on the store are recorded as
Call(op, h, b, err) == [op |-> op, hash |-> h, bytes |-> b, err |-> err]

\* os.CreateTemp: a file in temp/ under a name no file there has
TempName(d) == <<TempDir, [i \in 1 .. Len(d.log) + 1 |-> "x"]>>
TempFiles(d) == {f \in DOMAIN d.files : Dir(f) = <<TempDir>>}

\* Store.Store: temp file, MkdirAll of the directory, Rename onto the path
StoreOp(h, b) ==
  /\ Len(disk.log) < MaxStoreOps /\ disk.op = NoOp
  /\ LET path == hashToPath(h)
         mkdir == \A x \in Parents(path) : x \notin DOMAIN disk.files
         rename == path \notin disk.dirs
     IN disk' =
          [disk EXCEPT
             !.files = IF mkdir /\ rename THEN Put(@, path, b) ELSE @,
             !.dirs = IF mkdir THEN @ \cup Parents(path) ELSE @,
             !.log = Append(@, Call("store", h, b,
                                    IF mkdir /\ rename THEN None ELSE "failed")),
             !.last = IF mkdir /\ rename THEN Put(@, h, b) ELSE @]
  /\ UNCHANGED <<nodeVars, netVars, dataVars, send, crypt, codec, budget, lastErr>>

KeepDirs(fs, ds, dir) == ds

\* the loop of Store.Delete over the parent directories: remove while empty
RECURSIVE RemoveEmpty(_, _, _)
RemoveEmpty(fs, ds, dir) ==
  IF dir = <<>> \/ ~Empty(fs, ds, dir) THEN ds
  ELSE RemoveEmpty(fs, ds \ {dir}, Dir(dir))

\* Store.Delete: remove the file, then the parent directories left empty
DeleteOp(h) ==
  /\ Len(disk.log) < MaxStoreOps /\ disk.op = NoOp
  /\ LET path == hashToPath(h)
         found == path \in DOMAIN disk.files
         fs == IF found THEN Drop(disk.files, path) ELSE disk.files
     IN disk' =
          [disk EXCEPT
             !.files = fs,
             !.dirs = IF found THEN RemoveEmpty(fs, @, Dir(path)) ELSE @,
             !.log = Append(@, Call("delete", h, <<>>,
                                    IF found THEN None ELSE "not exist")),
             !.last = IF found /\ h \in DOMAIN @ THEN Drop(@, h) ELSE @]
  /\ UNCHANGED <<nodeVars, netVars, dataVars, send, crypt, codec, budget, lastErr>>

\* Store.CreateTemp: the temp file of a transfer in flight
CreateTempOp ==
  /\ Len(disk.log) < MaxStoreOps /\ disk.op = NoOp
  /\ disk' = [disk EXCEPT
                !.files = Put(@, TempName(disk), <<>>),
                !.log = Append(@, Call("createTemp", <<>>, <<>>, None))]
  /\ UNCHANGED <<nodeVars, netVars, dataVars, send, crypt, codec, budget, lastErr>>

\* Store.List: the walk of the base directory, which reports every file that
\* is not directly in temp/ as its path relative to the base, with slashes
ListAll(d) == {Slash(f) : f \in DOMAIN d.files}

List(d) == {Slash(f) : f \in DOMAIN d.files \ TempFiles(d)}

InitStore == InitAB /\ budget = NoBudget

NextStore ==
  \/ \E h \in StoreHashes, b \in Plains : StoreOp(h, b)
  \/ \E h \in StoreHashes : DeleteOp(h)
  \/ CreateTempOp

SpecStore == InitStore /\ [][NextStore]_vars

\* C20: every hash whose last successful store was not followed by a delete
\* of that hash exists, and loads as the bytes of that store, whatever was
\* stored or deleted under other hashes since
C20_RoundTrip ==
  \A h \in DOMAIN disk.last :
    /\ ExistsAt(disk, h)
    /\ LoadAt(disk, h) = [ok |-> TRUE, bytes |-> disk.last[h]]

\* an object was stored, then an object whose path shares both directories
\* was stored and deleted, and the first object still loads
C20_Witness ==
  \E h, g \in StoreHashes, b, c \in Plains :
    /\ h # g /\ Dir(hashToPath(h)) = Dir(hashToPath(g)) /\ b # c
    /\ disk.log = <<Call("store", h, b, None), Call("store", g, c, None),
                    Call("delete", g, <<>>, None)>>
    /\ LoadAt(disk, h).bytes = b

\* C22: what list() returns are stored content hashes, and all of them: every
\* entry exists and loads, and every hash that exists is an entry
C22_ListIsStoredHashes ==
  /\ \A x \in List(disk) : ExistsAt(disk, x) /\ LoadAt(disk, x).ok
  /\ \A h \in StoreHashes : ExistsAt(disk, h) => h \in List(disk)

\* C23: list() has one entry per stored object, the relative path of the
\* object, and so as many entries as there are objects; no file of temp/ is
\* an entry
C23_ListOnePerObject ==
  /\ List(disk) = {Slash(hashToPath(h)) : h \in DOMAIN disk.last}
  /\ Cardinality(List(disk)) = Cardinality(DOMAIN disk.last)
  /\ \A f \in TempFiles(disk) : Slash(f) \notin List(disk)

\* an object, then the temp file of a transfer, then a second object in the
\* same directory: two entries
C23_Witness ==
  /\ Len(disk.log) = 3
  /\ disk.log[1].op = "store" /\ disk.log[2].op = "createTemp"
  /\ disk.log[3].op = "store"
  /\ TempFiles(disk) # {}
  /\ Cardinality(List(disk)) = 2
  /\ \E h, g \in DOMAIN disk.last :
       h # g /\ Dir(hashToPath(h)) = Dir(hashToPath(g))

\* the call that this step adds to the record of the store
Called(op, h) ==
  /\ Len(disk'.log) = Len(disk.log) + 1
  /\ disk'.log[Len(disk'.log)].op = op
  /\ disk'.log[Len(disk'.log)].hash = h

\* C24: delete(h) of a stored h leaves h absent, every other object and temp/
\* as they were, the base directory in place and no shard directory empty;
\* delete(h) of a missing h fails and changes nothing
C24_DeleteCleansUp ==
  [][\A h \in StoreHashes :
       Called("delete", h) =>
         IF LoadAt(disk, h).ok
           THEN /\ disk'.log[Len(disk'.log)].err = None
                /\ ~ExistsAt(disk', h)
                /\ \A g \in StoreHashes \ {h} : LoadAt(disk', g) = LoadAt(disk, g)
                /\ TempFiles(disk') = TempFiles(disk)
                /\ {<<>>, <<TempDir>>} \subseteq disk'.dirs
                /\ \A d \in disk'.dirs \ {<<>>, <<TempDir>>} :
                     ~Empty(disk'.files, disk'.dirs, d)
           ELSE /\ disk'.log[Len(disk'.log)].err = "not exist"
                /\ disk'.files = disk.files /\ disk'.dirs = disk.dirs]_vars

\* two objects that share the first shard directory only; the second was
\* deleted: its own directory is gone, the shared one and the first object stay
C24_Witness ==
  \E h, g \in StoreHashes, b, c \in Plains :
    /\ hashToPath(h)[1] = hashToPath(g)[1] /\ hashToPath(h)[2] # hashToPath(g)[2]
    /\ disk.log = <<Call("store", h, b, None), Call("store", g, c, None),
                    Call("delete", g, <<>>, None)>>
    /\ LoadAt(disk, h).bytes = b
    /\ <<hashToPath(h)[1]>> \in disk.dirs
    /\ Dir(hashToPath(g)) \notin disk.dirs

\* ------------------------------------------------------------- Store.Store, step by step
\* the calls of Store.Store made one after the other
MaxAtomicOps == 2

\* hashes whose objects are in one directory
AtomicHashes == {h \in StoreHashes : \A i \in 1 .. 4 : h[i] = "a"}

CopyTargetFinal(op) == hashToPath(op.hash)

\* io.Copy(tempFile, r): the bytes of r go to the temp file
CopyTarget(op) == op.temp

\* the call ends: its result is recorded
Ended(d, err) ==
  [d EXCEPT !.log = Append(@, Call("store", d.op.hash, d.op.bytes, err)),
            !.op = NoOp]

\* Store.Store: os.CreateTemp, which can fail
StoreBegin(h, b) ==
  /\ Len(disk.log) < MaxAtomicOps /\ disk.op = NoOp
  /\ \/ disk' = [disk EXCEPT
                   !.files = Put(@, TempName(disk), <<>>),
                   !.op = [pc |-> "copy", hash |-> h, bytes |-> b,
                           temp |-> TempName(disk), off |-> 0]]
     \/ disk' = [disk EXCEPT !.log = Append(@, Call("store", h, b, "temp"))]
  /\ UNCHANGED <<nodeVars, netVars, dataVars, send, crypt, codec, budget, lastErr>>

\* Store.Store: io.Copy writes the next byte, or has reached the end of r
StoreCopy ==
  /\ disk.op.pc = "copy"
  /\ LET op == disk.op
         to == CopyTarget(op)
         old == IF to \in DOMAIN disk.files /\ op.off > 0
                  THEN disk.files[to] ELSE <<>>
     IN IF op.off < Len(op.bytes)
          THEN disk' = [disk EXCEPT
                          !.files = Put(@, to, Append(old, op.bytes[op.off + 1])),
                          !.op.off = @ + 1]
          ELSE disk' = [disk EXCEPT !.op.pc = "mkdir"]
  /\ UNCHANGED <<nodeVars, netVars, dataVars, send, crypt, codec, budget, lastErr>>

\* Store.Store: os.MkdirAll of the directory of the final path
StoreMkdir ==
  /\ disk.op.pc = "mkdir"
  /\ disk' = [disk EXCEPT !.dirs = @ \cup Parents(hashToPath(disk.op.hash)),
                          !.op.pc = "rename"]
  /\ UNCHANGED <<nodeVars, netVars, dataVars, send, crypt, codec, budget, lastErr>>

\* Store.Store: os.Rename of the temp file onto the final path; the deferred
\* os.Remove then finds no temp file
StoreRename ==
  /\ disk.op.pc = "rename"
  /\ LET op == disk.op
     IN disk' = Ended([disk EXCEPT
                         !.files = Put(Drop(@, op.temp), hashToPath(op.hash),
                                       disk.files[op.temp]),
                         !.last = Put(@, op.hash, disk.files[op.temp])],
                      None)
  /\ UNCHANGED <<nodeVars, netVars, dataVars, send, crypt, codec, budget, lastErr>>

\* Store.Store: the copy, MkdirAll (after making some of the directories) or
\* the rename fails; the deferred os.Remove removes the temp file
StoreFails ==
  /\ disk.op.pc \in {"copy", "mkdir", "rename"}
  /\ LET op == disk.op
         path == hashToPath(op.hash)
     IN \E k \in 0 .. Len(path) - 1 :
          /\ k > 0 => op.pc = "mkdir"
          /\ disk' = Ended([disk EXCEPT
                              !.files = Drop(@, op.temp),
                              !.dirs = @ \cup {SubSeq(path, 1, j) : j \in 1 .. k}],
                           op.pc)
  /\ UNCHANGED <<nodeVars, netVars, dataVars, send, crypt, codec, budget, lastErr>>

InitAtomic == InitAB /\ budget = NoBudget

NextAtomic ==
  \/ \E h \in AtomicHashes, b \in Plains : StoreBegin(h, b)
  \/ StoreCopy
  \/ StoreMkdir
  \/ StoreRename
  \/ StoreFails

SpecAtomic == InitAtomic /\ [][NextAtomic]_vars

\* C21: at every step of every store, and after it failed or succeeded, a
\* hash loads as the bytes of its last successful store or, without one, does
\* not exist; the only file in temp/ is that of the store that is running
C21_StoreAtomic ==
  /\ \A h \in StoreHashes :
       IF h \in DOMAIN disk.last
         THEN LoadAt(disk, h) = [ok |-> TRUE, bytes |-> disk.last[h]]
         ELSE ~ExistsAt(disk, h)
  /\ TempFiles(disk) = IF disk.op = NoOp THEN {} ELSE {disk.op.temp}

\* an object was stored; a second store under its hash, of other bytes, failed
\* after the copy; the object is as it was and temp/ is empty
C21_Witness ==
  \E h \in AtomicHashes, b, c \in Plains :
    /\ b # c
    /\ disk.log = <<Call("store", h, b, None), Call("store", h, c, "rename")>>
    /\ LoadAt(disk, h).bytes = b
    /\ TempFiles(disk) = {} /\ disk.op = NoOp

\* ------------------------------------------------------------- the stream cipher, chunk by chunk
\* bytes per Read of EncryptStream and DecryptStream (stands for 64 KiB)
CryptChunk == 2

\* the longest plaintext
MaxPlain == 3

XORRestarts(key, iv, pos, b) == XORKeyStream(key, iv, b)

\* stream.XORKeyStream on a stream that has produced pos bytes already
XORAt(key, iv, pos, b) ==
  [i \in 1 .. Len(b) |-> (b[i] + KeyStream(key, iv, pos + i)) % 2]

InitCrypt == InitAB /\ budget = NoBudget

\* EncryptStream is called with a key and a plaintext, and GenerateIV draws
\* the IV
EncryptBegin(key, iv, plain) ==
  /\ crypt = NoCrypt
  /\ crypt' = [pc |-> "iv", key |-> key, iv |-> iv, plain |-> plain,
               read |-> 0, cipher |-> <<>>, div |-> <<>>, dread |-> 0,
               out |-> <<>>]
  /\ UNCHANGED <<nodeVars, netVars, dataVars, send, disk, codec, budget, lastErr>>

\* EncryptStream: w.Write(iv)
EncryptIV ==
  /\ crypt.pc = "iv"
  /\ crypt' = [crypt EXCEPT !.cipher = crypt.iv, !.pc = "encrypt"]
  /\ UNCHANGED <<nodeVars, netVars, dataVars, send, disk, codec, budget, lastErr>>

\* EncryptStream: one round of its loop.  r.Read gives n bytes, at most a
\* buffer, and they are encrypted and written; at the end it gives io.EOF
EncryptChunk(n) ==
  /\ crypt.pc = "encrypt"
  /\ IF crypt.read = Len(crypt.plain)
       THEN n = 0 /\ crypt' = [crypt EXCEPT !.pc = "readiv"]
       ELSE /\ n \in 1 .. Min(CryptChunk, Len(crypt.plain) - crypt.read)
            /\ crypt' = [crypt EXCEPT
                 !.cipher = @ \o XORAt(crypt.key, crypt.iv, crypt.read,
                                       SubSeq(crypt.plain, crypt.read + 1,
                                              crypt.read + n)),
                 !.read = @ + n]
  /\ UNCHANGED <<nodeVars, netVars, dataVars, send, disk, codec, budget, lastErr>>

\* DecryptStream: io.ReadFull(r, iv)
DecryptIV ==
  /\ crypt.pc = "readiv"
  /\ IF Len(crypt.cipher) < IVSize
       THEN crypt' = [crypt EXCEPT !.pc = "failed"]
       ELSE crypt' = [crypt EXCEPT !.div = SubSeq(crypt.cipher, 1, IVSize),
                                   !.pc = "decrypt"]
  /\ UNCHANGED <<nodeVars, netVars, dataVars, send, disk, codec, budget, lastErr>>

\* DecryptStream: one round of its loop
DecryptChunk(n) ==
  /\ crypt.pc = "decrypt"
  /\ LET body == SubSeq(crypt.cipher, IVSize + 1, Len(crypt.cipher))
     IN IF crypt.dread = Len(body)
          THEN n = 0 /\ crypt' = [crypt EXCEPT !.pc = "done"]
          ELSE /\ n \in 1 .. Min(CryptChunk, Len(body) - crypt.dread)
               /\ crypt' = [crypt EXCEPT
                    !.out = @ \o XORAt(crypt.key, crypt.div, crypt.dread,
                                       SubSeq(body, crypt.dread + 1,
                                              crypt.dread + n)),
                    !.dread = @ + n]
  /\ UNCHANGED <<nodeVars, netVars, dataVars, send, disk, codec, budget, lastErr>>

NextCrypt ==
  \/ \E key \in Keys, iv \in IVs, plain \in SeqsUpTo(Bytes, MaxPlain) :
       EncryptBegin(key, iv, plain)
  \/ EncryptIV
  \/ \E n \in 0 .. CryptChunk : EncryptChunk(n)
  \/ DecryptIV
  \/ \E n \in 0 .. CryptChunk : DecryptChunk(n)

SpecCrypt == InitCrypt /\ [][NextCrypt]_vars

\* C25: decryption never fails on the output of encryption; what encryption
\* wrote is the IV and as many bytes as the plaintext has, and what
\* decryption wrote in the end is the plaintext, however the reads of the two
\* fell; both are what the one-piece operators of the node model give
C25_RoundTrip ==
  /\ crypt.pc # "failed"
  /\ crypt.pc \in {"readiv", "decrypt", "done"} =>
       /\ Len(crypt.cipher) = Len(crypt.plain) + IVSize
       /\ crypt.cipher = EncryptStream(crypt.key, crypt.iv, crypt.plain)
  /\ crypt.pc = "done" =>
       /\ crypt.out = crypt.plain
       /\ DecryptStream(crypt.key, crypt.cipher) = [ok |-> TRUE, out |-> crypt.out]

\* a plaintext longer than a buffer came back
C25_Witness ==
  /\ crypt.pc = "done"
  /\ Len(crypt.plain) > CryptChunk
  /\ crypt.out = crypt.plain /\ crypt.cipher # crypt.iv \o crypt.plain

\* ------------------------------------------------------------- message payloads
\* NewMessage and ParsePayload on their own: the payload structs, their JSON
\* objects, and json.Unmarshal into a struct of any of the five types.
PayloadTypes == {"handshake", "data", "data_request", "data_transfer", "discovery"}

\* the Go type of every field of a payload struct, by its JSON name
Schema(t) ==
  CASE t = "handshake" ->
         [node_id |-> "string", address |-> "string", known_peers |-> "list",
          key |-> "bytes"]
    [] t = "data" ->
         [content_hash |-> "string", file_name |-> "string", size |-> "int",
          encrypted |-> "bool", iv |-> "bytes", from_watch |-> "bool"]
    [] t = "data_request" ->
         [content_hash |-> "string", from_watch |-> "bool"]
    [] t = "data_transfer" ->
         [content_hash |-> "string", data |-> "bytes", chunk_index |-> "int",
          final_chunk |-> "bool", iv |-> "bytes", from_watch |-> "bool"]
    [] t = "discovery" ->
         [node_id |-> "string", address |-> "string"]

\* `json:"iv,omitempty"` of DataTransfer
OmitEmpty(t, k) == t = "data_transfer" /\ k = "iv"

Strings == {"", "x"}
ByteSlices == {<<>>, <<1>>}
StringSlices == {<<>>, <<"p">>}
Ints == {0, 1}

\* the values of a payload struct (a nil slice and an empty one are one value)
Payloads(t) ==
  CASE t = "handshake" ->
         [node_id : Strings, address : Strings, known_peers : StringSlices,
          key : ByteSlices]
    [] t = "data" ->
         [content_hash : Strings, file_name : Strings, size : Ints,
          encrypted : BOOLEAN, iv : ByteSlices, from_watch : BOOLEAN]
    [] t = "data_request" ->
         [content_hash : Strings, from_watch : BOOLEAN]
    [] t = "data_transfer" ->
         [content_hash : Strings, data : ByteSlices, chunk_index : Ints,
          final_chunk : BOOLEAN, iv : ByteSlices, from_watch : BOOLEAN]
    [] t = "discovery" ->
         [node_id : Strings, address : Strings]

Zero(ty) ==
  CASE ty = "string" -> ""
    [] ty = "bytes" -> <<>>
    [] ty = "list" -> <<>>
    [] ty = "int" -> 0
    [] ty = "bool" -> FALSE

JNull == [t |-> "null"]

\* json.Marshal of one field: a []byte becomes a base64 string, a nil slice
\* becomes null
Encode(ty, v) ==
  CASE ty = "string" -> [t |-> "string", enc |-> "utf8", v |-> v]
    [] ty = "bytes" ->
         IF v = <<>> THEN JNull ELSE [t |-> "string", enc |-> "base64", v |-> v]
    [] ty = "list" -> IF v = <<>> THEN JNull ELSE [t |-> "array", v |-> v]
    [] ty = "int" -> [t |-> "number", v |-> v]
    [] ty = "bool" -> [t |-> "bool", v |-> v]

\* json.Marshal of a payload struct: an object with one member per field
Marshal(t, p) ==
  [k \in {f \in DOMAIN Schema(t) : ~(OmitEmpty(t, f) /\ p[f] = <<>>)} |->
     Encode(Schema(t)[k], p[k])]

\* json.Unmarshal accepts null for every field and otherwise wants the JSON
\* type of the field; a string for a []byte must be base64 text
Decodable(ty, j) ==
  \/ j.t = "null"
  \/ CASE ty = "string" -> j.t = "string"
       [] ty = "bytes" -> j.t = "string" /\ (j.enc = "base64" \/ j.v = "")
       [] ty = "list" -> j.t = "array"
       [] ty = "int" -> j.t = "number"
       [] ty = "bool" -> j.t = "bool"

Decode(ty, j) ==
  IF j.t = "null" THEN Zero(ty)
  ELSE IF ty = "bytes" /\ j.enc = "utf8" THEN <<>>
  ELSE IF ty = "string" /\ j.enc = "base64" THEN [b64 |-> j.v]
  ELSE j.v

\* json.Unmarshal into a struct: a member without a field of its name is
\* skipped, a field without a member keeps its zero value, and the error is
\* that of input that is no object or of a member of the wrong JSON type
Unmarshal(raw, t) ==
  LET S == Schema(t)
      Set(k) == k \in DOMAIN raw.obj /\ Decodable(S[k], raw.obj[k])
  IN IF raw.kind # "object"
     THEN [ok |-> FALSE, v |-> [k \in DOMAIN S |-> Zero(S[k])]]
     ELSE [ok |-> \A k \in DOMAIN S \cap DOMAIN raw.obj : Decodable(S[k], raw.obj[k]),
           v |-> [k \in DOMAIN S |->
                    IF Set(k) THEN Decode(S[k], raw.obj[k]) ELSE Zero(S[k])]]

InitMsg == InitAB /\ budget = NoBudget

\* NewMessage(type, sender, payload)
NewMessage(t, p) ==
  /\ codec = NoMessage
  /\ codec' = [pc |-> "built", type |-> t, sent |-> p,
               payload |-> [kind |-> "object", obj |-> Marshal(t, p)]]
  /\ UNCHANGED <<nodeVars, netVars, dataVars, send, disk, crypt, budget, lastErr>>

\* a Message whose Payload was not made by NewMessage: some JSON value that
\* is no object
ForeignPayload(t) ==
  /\ codec = NoMessage
  /\ codec' = [pc |-> "built", type |-> t, sent |-> None,
               payload |-> [kind |-> "other", obj |-> <<>>]]
  /\ UNCHANGED <<nodeVars, netVars, dataVars, send, disk, crypt, budget, lastErr>>

\* m.ParsePayload(&v) with v a payload struct of type t
ParsePayload(t) ==
  /\ codec.pc = "built"
  /\ codec' = [pc |-> "parsed", type |-> codec.type, sent |-> codec.sent,
               payload |-> codec.payload, schema |-> t,
               res |-> Unmarshal(codec.payload, t)]
  /\ UNCHANGED <<nodeVars, netVars, dataVars, send, disk, crypt, budget, lastErr>>

NextMsg ==
  \/ \E t \in PayloadTypes : \E p \in Payloads(t) : NewMessage(t, p)
  \/ \E t \in PayloadTypes : ForeignPayload(t)
  \/ \E t \in PayloadTypes : ParsePayload(t)

SpecMsg == InitMsg /\ [][NextMsg]_vars

\* C26: a payload parsed against the schema of its message's type comes back
\* as it was sent, and a payload parsed against the schema of another type
\* is refused with an error
C26_RoundTrip ==
  (codec.pc = "parsed" /\ codec.payload.kind = "object") =>
    IF codec.schema = codec.type
    THEN codec.res.ok /\ codec.res.v = codec.sent
    ELSE ~codec.res.ok

\* ------------------------------------------------------------- ciphertext only
\* o is an IV followed by the CTR ciphertext of one of the files under the
\* key of the network (the keystream xored on twice gives the file back)
IsCiphertext(o) ==
  /\ Len(o) >= IVSize
  /\ XORKeyStream(networkKey["A"], SubSeq(o, 1, IVSize),
                  SubSeq(o, IVSize + 1, Len(o))) \in Plains

\* chunk idx of the byte string c
ChunkOf(c, idx) ==
  SubSeq(c, idx * TransferChunk + 1, Min(Len(c), (idx + 1) * TransferChunk))

\* C27: between the first node and a joiner every stored object is the
\* IV followed by the ciphertext of a file under the network key; every
\* data_transfer in flight carries a chunk of the sender's object of that
\* hash; and an object committed from a watch transfer is the bytes of the
\* object of the node it came from
C27_CiphertextOnly ==
  /\ \A n \in Nodes : \A h \in DOMAIN store[n] : IsCiphertext(store[n][h])
  /\ \A m \in InFlight : m.type = "data_transfer" =>
       /\ m.contentHash \in DOMAIN store[m.sender]
       /\ m.data = ChunkOf(store[m.sender][m.contentHash], m.chunkIndex)
  /\ \A n \in Nodes : \A h \in hist[n].received :
       \E m \in Nodes \ {n} : h \in DOMAIN store[m] /\ store[n][h] = store[m][h]

\* an object of more than one chunk has reached B from A's watch directory
C27_Witness ==
  \E h \in hist["B"].received :
    /\ h \in hist["A"].watched
    /\ Len(store["B"][h]) > TransferChunk
    /\ store["B"][h] = store["A"][h]

\* ------------------------------------------------------------- transfer lifecycle
MaxChunks == 2

\* the objects a remote program may name in its chunks: the empty one and
\* one of a single byte
ChunkData == {<<>>, <<1>>}

\* the data_transfer messages a remote program can write, whatever was asked
\* of it
ForeignChunks ==
  {DataTransferMsg(None, ContentHash(c), d, idx, final, fromWatch) :
     c \in ChunkData, d \in ChunkData, idx \in {0 - 1, 0},
     final \in BOOLEAN, fromWatch \in BOOLEAN}

\* B has dialed A, the user of A may have run a get, and B writes a chunk
\* whenever A has handled what B wrote before
InitXfer ==
  /\ InitAB
  /\ budget = [dials |-> 1, ops |-> 1, faults |-> 0, stops |-> 0,
               injects |-> MaxChunks]

NextXfer ==
  \/ Connect("B", "A")
  \/ \E c \in ConnIds : Accept(c)
  \/ \E e \in Endpoints : handleHandshake(e)
  \/ GetFile("A", AbsentHash)
  \/ \E e \in Endpoints, m \in ForeignChunks :
       Owner(e) = "A" /\ wire[e] = <<>> /\ rl[e].pc = "idle" /\ Inject(e, m)
  \/ \E e \in Endpoints : handleDataTransfer(e)
  \/ \E e \in Endpoints : writeChunk(e)
  \/ \E e \in Endpoints : finalizeVerify(e)
  \/ \E e \in Endpoints : finalizeWatchTransfer(e)
  \/ \E e \in Endpoints : finalizeDownload(e)

SpecXfer == InitXfer /\ [][NextXfer]_vars

\* the handler of a data_transfer at e returns in this step
ChunkReturns(e) ==
  /\ rl[e].pc # "idle" /\ rl[e].msg.type = "data_transfer"
  /\ rl'[e].pc = "idle"

\* the transferState the handler running at e works on, 0 when there is none
StateOf(e) ==
  LET n == Owner(e)
      key == TransferKey(e, rl[e].msg.contentHash)
  IN IF rl[e].st # 0 THEN rl[e].st
     ELSE IF key \in DOMAIN transfers[n] THEN transfers[n][key] ELSE 0

\* the temp file of transferState i was closed and unlinked
Unlinked(fs, i) == i \in DOMAIN fs => fs[i].closed

\* C28: when the handler of a chunk that is not final returns, the
\* transferState of its key is in the map; when the handler of a final chunk
\* returns, whatever its index and however verification and decryption went,
\* the map has no entry for the key and the temp file of the transfer is gone
C28_Lifecycle ==
  [][\A e \in Endpoints : ChunkReturns(e) =>
       LET n == Owner(e)
           key == TransferKey(e, rl[e].msg.contentHash)
       IN IF rl[e].msg.finalChunk
            THEN key \notin DOMAIN transfers'[n] /\ Unlinked(files', StateOf(e))
            ELSE key \in DOMAIN transfers'[n]]_vars

\* C29: the store of a node changes only by the commit of a transfer whose
\* state was created for a chunk from a watch, and downloads/ then stays as
\* it was; a file of downloads/ changes only by the commit of a transfer
\* whose state was created for a chunk of a fetch, it is the file of the
\* content hash, and the store then stays as it was
C29_DestinationByOrigin ==
  [][\A n \in Nodes :
       /\ store'[n] # store[n] =>
            /\ downloads'[n] = downloads[n]
            /\ \E e \in Endpoints :
                 /\ Owner(e) = n /\ rl[e].pc = "commitW" /\ rl'[e].pc = "idle"
                 /\ files[rl[e].st].fromWatch
                 /\ store'[n] = Put(store[n], rl[e].msg.contentHash,
                                    files[rl[e].st].content)
       /\ downloads'[n].f # downloads[n].f =>
            /\ store'[n] = store[n]
            /\ \E e \in Endpoints :
                 /\ Owner(e) = n /\ rl[e].pc = "commitD" /\ rl'[e].pc = "idle"
                 /\ ~files[rl[e].st].fromWatch
                 /\ \A h \in (DOMAIN downloads[n].f) \cup (DOMAIN downloads'[n].f) :
                      h # rl[e].msg.contentHash =>
                        /\ h \in DOMAIN downloads[n].f
                        /\ h \in DOMAIN downloads'[n].f
                        /\ downloads'[n].f[h] = downloads[n].f[h]]_vars

\* a transfer that began with a chunk from a watch and ended with a chunk
\* flagged as a fetch is about to be committed to the store
C29_Witness ==
  \E e \in Endpoints :
    /\ rl[e].pc = "commitW"
    /\ ~rl[e].msg.fromWatch
    /\ files[rl[e].st].fromWatch

\* ------------------------------------------------------------- chunk order
\* handleDataRequest at e serves a request in this step
Serves(e) ==
  /\ Reading(e) /\ Head(wire[e]).type = "data_request"
  /\ rl'[e].pc = "idle" /\ wire'[e] = Tail(wire[e])
  /\ budget' = budget

\* what a step appended to the stream that endpoint e decodes
Appended(e) == SubSeq(wire'[e], Len(wire[e]) + 1, Len(wire'[e]))

\* the chunks of one served request: indexes from 0 up, a full buffer in
\* every chunk but the last, the hash and the flag of the request
InOrder(ms, req) ==
  \A i \in DOMAIN ms :
    /\ ms[i].type = "data_transfer"
    /\ ms[i].chunkIndex = i - 1
    /\ ms[i].contentHash = req.contentHash /\ ms[i].fromWatch = req.fromWatch
    /\ Len(ms[i].data) \in 1 .. TransferChunk
    /\ i < Len(ms) => Len(ms[i].data) = TransferChunk

\* the handlers of data_transfer messages that run at node n for transfer key k
Handlers(n, k) ==
  {e \in Endpoints :
     /\ conns[e[1]] # NoConn /\ Owner(e) = n
     /\ rl[e].pc # "idle" /\ rl[e].msg.type = "data_transfer"
     /\ TransferKey(e, rl[e].msg.contentHash) = k}

OneHandlerPerKey ==
  \A e \in Endpoints :
    (conns[e[1]] # NoConn /\ rl[e].pc # "idle" /\ rl[e].msg.type = "data_transfer")
      => Handlers(Owner(e), TransferKey(e, rl[e].msg.contentHash)) = {e}

\* C30: a served request appends its chunks to the requester's stream in
\* order, indexes from 0, full buffers but for the last, hash and flag of the
\* request; and no two handlers ever run for one transfer key at a time
C30_ChunkOrder ==
  [][/\ \A e \in Endpoints :
          Serves(e) => InOrder(Appended(Other(e)), Head(wire[e]))
     /\ OneHandlerPerKey']_vars

\* ------------------------------------------------------------- announce after store
\* C31: the hash of every announcement in flight is an object of the store
\* of the node that sent it and one it ingested from its watch directory, no
\* ingested object is ever missing from the store again, and so every
\* request that waits at a node for an object it announced finds the object
C31_AnnounceAfterStore ==
  /\ \A m \in InFlight : m.type = "data" =>
       /\ m.contentHash \in hist[m.sender].watched
       /\ Exists(store[m.sender], m.contentHash)
  /\ \A n \in Nodes : hist[n].watched \subseteq DOMAIN store[n]
  /\ \A e \in Endpoints : \A i \in DOMAIN wire[e] :
       (wire[e][i].type = "data_request"
          /\ wire[e][i].contentHash \in hist[Owner(e)].watched)
       => Exists(store[Owner(e)], wire[e][i].contentHash)

\* a request for an object B announced has reached B, after a watch event
\* at B that came to nothing
C31_Witness ==
  /\ hist["B"].cmds > Cardinality(hist["B"].watched)
  /\ \E e \in Endpoints :
       /\ conns[e[1]] # NoConn /\ Owner(e) = "B"
       /\ wire[e] # <<>> /\ Head(wire[e]).type = "data_request"
       /\ Head(wire[e]).contentHash \in hist["B"].watched

\* ------------------------------------------------------------- user get
\* the streams a broadcast of node n reaches
Reached(n) ==
  {Other(EndOf(n, c)) : c \in {d \in registry[n] : Deliverable(EndOf(n, d))}}

MaxDiscoveries == 2

\* the discovery messages a remote program can write: the node ids of the
\* network, with the address of B (listening) or of C (not started)
DiscoveryMsgs ==
  {[type |-> "discovery", sender |-> None, nodeId |-> id, address |-> a] :
     id \in Nodes, a \in {"B", "C"}}

NeverConnected(n, id) == FALSE

\* _, alreadyConnected := n.peers[payload.NodeID]
AlreadyConnected(n, id) == id \in DOMAIN peers[n]

\* Node.handleDiscovery: nothing for the own id and for an id of the peers
\* map, else a goroutine that will dial the address
handleDiscovery(e) ==
  /\ Reading(e)
  /\ Head(wire[e]).type = "discovery"
  /\ LET n == Owner(e)
         m == Head(wire[e])
     IN /\ wire' = [wire EXCEPT ![e] = Tail(@)]
        /\ lastErr' = [lastErr EXCEPT ![e] = None]
        /\ nstate' = IF m.nodeId = n \/ AlreadyConnected(n, m.nodeId)
                       THEN nstate
                       ELSE [nstate EXCEPT ![n].dialing = Append(@, m.address)]
  /\ UNCHANGED <<started, isFirstNode, localKey, networkKey, keyReady, peers, conns,
                 registry, rl, pstate, dataVars, budget>>
  /\ UNCHANGED compVars

Without(s, i) == SubSeq(s, 1, i - 1) \o SubSeq(s, i + 1, Len(s))

\* the goroutine of handleDiscovery: n.Connect(payload.Address), and a line
\* on the terminal for either outcome
discoveryDial(n, i) ==
  /\ n \in started
  /\ i \in DOMAIN nstate[n].dialing
  /\ nstate' = [nstate EXCEPT ![n].dialing = Without(@, i)]
  /\ IF nstate[n].dialing[i] \in started
       THEN Dial(n, nstate[n].dialing[i])
       ELSE /\ UNCHANGED <<started, isFirstNode, localKey, networkKey, keyReady, peers,
                           netVars, dataVars, budget, lastErr>>
            /\ UNCHANGED compVars

\* B has dialed A; B, or whoever writes on its connection, sends discovery
\* messages to A
InitDisc ==
  /\ InitAB
  /\ budget = [dials |-> 1 + MaxDiscoveries, ops |-> 0, faults |-> 0, stops |-> 0,
               injects |-> MaxDiscoveries]

NextDisc ==
  \/ conns[1] = NoConn /\ Connect("B", "A")
  \/ \E c \in ConnIds : Accept(c)
  \/ \E e \in Endpoints : handleHandshake(e)
  \/ \E e \in Endpoints, m \in DiscoveryMsgs : Owner(e) = "A" /\ Inject(e, m)
  \/ \E e \in Endpoints : handleDiscovery(e)
  \/ \E n \in Nodes, i \in 1 .. MaxDiscoveries : discoveryDial(n, i)

SpecDisc == InitDisc /\ [][NextDisc]_vars

\* the connections that exist
Dialed(cs) == {c \in ConnIds : cs[c] # NoConn}

\* C33: a discovery message that names the node itself or a node id of the
\* peers map changes nothing; any other one starts one goroutine for its
\* address, registers nothing and dials nothing in the handler; the handler
\* returns no error and closes no peer; and the goroutine makes one dial to
\* that address, whose failure closes no peer and reaches no handler
C33_Discovery ==
  [][/\ \A e \in Endpoints : handleDiscovery(e) =>
          LET n == Owner(e)
              m == Head(wire[e])
          IN /\ lastErr'[e] = None /\ pstate' = pstate
             /\ conns' = conns /\ registry' = registry /\ peers' = peers
             /\ IF m.nodeId = n \/ m.nodeId \in DOMAIN peers[n]
                  THEN nstate' = nstate
                  ELSE nstate' = [nstate EXCEPT ![n].dialing = Append(@, m.address)]
     /\ \A n \in Nodes, i \in 1 .. MaxDiscoveries : discoveryDial(n, i) =>
          LET a == nstate[n].dialing[i]
          IN /\ Len(nstate'[n].dialing) = Len(nstate[n].dialing) - 1
             /\ lastErr' = lastErr /\ peers' = peers
             /\ \A e \in Endpoints : pstate[e].open => pstate'[e].open
             /\ Cardinality(Dialed(conns') \ Dialed(conns)) =
                  (IF a \in started THEN 1 ELSE 0)
             /\ \A c \in Dialed(conns') \ Dialed(conns) :
                  conns'[c].dialer = n /\ conns'[c].listener = a]_vars

\* both discovery messages were handled and every goroutine has ended; one
\* of them has dialed B from A
C33_Witness ==
  /\ nstate["A"].dialing = <<>>
  /\ budget.injects = 0
  /\ \E c \in ConnIds : conns[c] # NoConn /\ conns[c].dialer = "A"
                        /\ conns[c].listener = "B"
  /\ Cardinality(Dialed(conns)) = 2

\* ------------------------------------------------------------- peers map
\* Node.handleHandshake in its two steps: the critical section that records
\* the sender and adopts the key, and then getKnownPeers and the response
handshakeRecord(e) ==
  /\ Reading(e)
  /\ Head(wire[e]).type = "handshake"
  /\ LET n == Owner(e)
         m == Head(wire[e])
     IN /\ peers' = [peers EXCEPT ![n] = Put(@, m.nodeId, m.address)]
        /\ networkKey' = [networkKey EXCEPT ![n] = KeyAfterHandshake(n, m)]
        /\ keyReady' = [keyReady EXCEPT ![n] = ReadyAfterHandshake(n, m)]
        /\ wire' = [wire EXCEPT ![e] = Tail(@)]
        /\ rl' = [rl EXCEPT ![e] = [pc |-> "respond", msg |-> m, st |-> 0]]
        /\ conns' = [conns EXCEPT ![e[1]] =
                       IF e[2] = "d" THEN [@ EXCEPT !.gotResp = TRUE]
                                     ELSE [@ EXCEPT !.gotDial = TRUE]]
  /\ UNCHANGED <<started, isFirstNode, localKey, nstate, registry, pstate, dataVars,
                 budget, lastErr>>
  /\ UNCHANGED compVars

handshakeRespond(e) ==
  /\ rl[e].pc = "respond"
  /\ LET n == Owner(e)
     IN /\ wire' = SendTo(wire, e,
                     HandshakeMsg(n, getKnownPeers(peers[n]), ResponseKey(n), FALSE))
        /\ rl' = [rl EXCEPT ![e] = Idle]
        /\ lastErr' = [lastErr EXCEPT ![e] = None]
  /\ UNCHANGED <<nodeVars, conns, registry, pstate, dataVars, budget>>
  /\ UNCHANGED compVars

\* the handshakes of a node that runs under the id of B at another address
MovedHandshakes ==
  {[HandshakeMsg("B", {}, NoKey, TRUE) EXCEPT !.address = "B2"]}

\* B has dialed A, once or again, and a node that was started under the id
\* of B at another address has its handshake on one of the connections
InitPeers ==
  /\ InitAB
  /\ budget = [dials |-> MaxDials, ops |-> 0, faults |-> 0, stops |-> 0,
               injects |-> MaxInjects]

NextPeers ==
  \/ Connect("B", "A")
  \/ \E c \in ConnIds : Accept(c)
  \/ \E e \in Endpoints, m \in MovedHandshakes : Owner(e) = "A" /\ Inject(e, m)
  \/ \E e \in Endpoints : handshakeRecord(e)
  \/ \E e \in Endpoints : handshakeRespond(e)

SpecPeers == InitPeers /\ [][NextPeers]_vars

\* C34: the step that records a handshake puts the advertised address under
\* the advertised node id and leaves every other entry as it was; no step
\* removes an entry; and the response lists the addresses of the peers map
\* as it is when the response is made, the address the sender advertised
\* among them
C34_PeersMap ==
  [][/\ \A n \in Nodes : \A id \in DOMAIN peers[n] : id \in DOMAIN peers'[n]
     /\ \A e \in Endpoints : handshakeRecord(e) =>
          LET n == Owner(e)
              m == Head(wire[e])
          IN /\ DOMAIN peers'[n] = DOMAIN peers[n] \cup {m.nodeId}
             /\ peers'[n][m.nodeId] = m.address
             /\ \A id \in DOMAIN peers[n] \ {m.nodeId} : peers'[n][id] = peers[n][id]
     /\ \A e \in Endpoints : (handshakeRespond(e) /\ Deliverable(e)) =>
          LET n == Owner(e)
              r == wire'[Other(e)][Len(wire'[Other(e)])]
          IN /\ r.type = "handshake" /\ ~r.dial
             /\ r.knownPeers = {peers[n][id] : id \in DOMAIN peers[n]}
             /\ rl[e].msg.address \in r.knownPeers]_vars

\* ------------------------------------------------------------- key-ready latch
\* node n handles a handshake that carries a key in this step
GetsKey(n) ==
  \E e \in Endpoints :
    /\ conns[e[1]] # NoConn /\ Owner(e) = n
    /\ handleHandshake(e) /\ Head(wire[e]).key # NoKey

\* C35: keyReady is closed from the start on a first node and open on a
\* joiner; it is never opened again; it is closed only by a joiner handling
\* a handshake that carries a key; no handshake makes a node fault; and
\* once it is closed the key wait succeeds
C35_KeyReadyLatch ==
  /\ \A n \in Nodes : keyReady[n] = isFirstNode[n]
  /\ [][\A n \in Nodes :
          /\ keyReady[n] => keyReady'[n]
          /\ (~keyReady[n] /\ keyReady'[n]) => (~isFirstNode[n] /\ GetsKey(n))
          /\ nstate'[n].fault = None
          /\ keyReady'[n] => KeyAvailable(n)']_vars

\* a joiner has handled handshakes that carry a key on two connections
C35_Witness ==
  \E n \in Nodes : \E c1, c2 \in ConnIds :
    /\ c1 # c2 /\ conns[c1] # NoConn /\ conns[c2] # NoConn
    /\ ~isFirstNode[n] /\ keyReady[n]
    /\ Dialer(c1) = n /\ Dialer(c2) = n
    /\ conns[c1].gotResp /\ conns[c2].gotResp
    /\ isFirstNode[Listener(c1)] /\ isFirstNode[Listener(c2)]

\* ------------------------------------------------------------- handshake exchange
\* A is a first node, B a first node or a joiner; either dials the other;
\* the accept loop and the read loops are goroutines that run when they can
InitShake ==
  /\ InitNode({"A", "B"})
  /\ isFirstNode["A"]
  /\ localKey["A"] = KeyOfA
  /\ budget = [NoBudget EXCEPT !.dials = MaxDials]

NextShake ==
  \/ \E n, m \in {"A", "B"} : Connect(n, m)
  \/ \E c \in ConnIds : Accept(c)
  \/ \E e \in Endpoints : handleHandshake(e)

FairShake ==
  /\ \A c \in ConnIds : WF_vars(Accept(c))
  /\ \A e \in Endpoints : WF_vars(handleHandshake(e))

SpecShake == InitShake /\ [][NextShake]_vars /\ FairShake

\* no endpoint has a handshake to decode
NoHandshakePending ==
  \A e \in Endpoints : \A i \in 1 .. Len(wire[e]) : wire[e][i].type # "handshake"

\* there was exactly one connect
SingleConnect == Cardinality(Dialed(conns)) = 1

\* C36: when there is a single connect, the handshake exchange ends: from
\* some point on no handshake is left to send or to process
C36_HandshakeQuiescence == <>[](SingleConnect => NoHandshakePending)

\* connection c was dialed by a first node to a joiner
FirstDialedJoiner(c) ==
  /\ conns[c] # NoConn
  /\ isFirstNode[Dialer(c)] /\ ~isFirstNode[Listener(c)]

\* the listener of c is key-ready with the key of the dialer
Adopted(c) ==
  /\ conns[c] # NoConn
  /\ keyReady[Listener(c)]
  /\ networkKey[Listener(c)] = networkKey[Dialer(c)]

\* C37: a handshake sent at dial time carries no key, and a joiner that a
\* first node dialed still gets key-ready with the key of that first node
C37_DialedJoinerGetsKey ==
  /\ [][\A n, m \in Nodes : Connect(n, m) =>
          \E c \in ConnIds :
            /\ conns[c] = NoConn /\ conns'[c] # NoConn
            /\ wire'[<<c, "l">>] = <<HandshakeMsg(n, {}, NoKey, TRUE)>>]_vars
  /\ \A c \in ConnIds : FirstDialedJoiner(c) ~> Adopted(c)

\* the joiner B never dialed, A dialed it, and B holds the key of A
C37_Witness ==
  /\ \A c \in Dialed(conns) : Dialer(c) = "A" /\ Listener(c) = "B"
  /\ \E c \in ConnIds : FirstDialedJoiner(c) /\ Adopted(c) /\ conns[c].gotResp
  /\ localKey["B"] # localKey["A"]

\* ------------------------------------------------------------- flow control
\* records a direction of a connection holds before a write to it blocks
BufSize == 1

\* Peer.Send on endpoint e returns: the connection takes the record
Room(e) == Len(wire[Other(e)]) < BufSize

\* what the handler of message m, decoded at endpoint e, sends to the peer:
\* handleHandshake its response, handleData its request for an object it
\* does not hold, handleDataRequest the chunks of the object
Replies(e, m) ==
  LET n == Owner(e)
  IN CASE m.type = "handshake" ->
            <<HandshakeMsg(n, getKnownPeers(Put(peers[n], m.nodeId, m.address)),
                           ResponseKey(n), FALSE)>>
       [] m.type = "data" ->
            IF Exists(store[n], m.contentHash) THEN <<>>
            ELSE <<DataRequestMsg(n, m.contentHash, m.fromWatch)>>
       [] m.type = "data_request" ->
            IF ~Exists(store[n], m.contentHash) THEN <<>>
            ELSE [i \in DOMAIN ReadChunks(store[n][m.contentHash], 0, 0) |->
                    LET ch == ReadChunks(store[n][m.contentHash], 0, 0)[i]
                    IN DataTransferMsg(n, m.contentHash, ch.data, ch.chunkIndex,
                                       ch.finalChunk, m.fromWatch)]

\* Peer.readLoop decodes a handshake, an announcement or a request and runs
\* its handler up to the first Send
flowDecode(e) ==
  /\ Reading(e)
  /\ Head(wire[e]).type \in {"handshake", "data", "data_request"}
  /\ LET n == Owner(e)
         m == Head(wire[e])
         out == Replies(e, m)
     IN /\ ~(m.type # "handshake" /\ hashToPathFaults(m.contentHash))
        /\ IF m.type = "handshake"
             THEN /\ peers' = [peers EXCEPT ![n] = Put(@, m.nodeId, m.address)]
                  /\ networkKey' = [networkKey EXCEPT ![n] = KeyAfterHandshake(n, m)]
                  /\ keyReady' = [keyReady EXCEPT ![n] = ReadyAfterHandshake(n, m)]
                  /\ conns' = [conns EXCEPT ![e[1]] =
                                 IF e[2] = "d" THEN [@ EXCEPT !.gotResp = TRUE]
                                               ELSE [@ EXCEPT !.gotDial = TRUE]]
             ELSE UNCHANGED <<peers, networkKey, keyReady, conns>>
        /\ wire' = [wire EXCEPT ![e] = Tail(@)]
        /\ rl' = [rl EXCEPT ![e] =
                    IF out = <<>> THEN Idle
                    ELSE [pc |-> "send", msg |-> m, st |-> 0, out |-> out]]
        /\ lastErr' = [lastErr EXCEPT ![e] =
                         IF m.type = "data_request" /\ out = <<>>
                           THEN "failed to load file" ELSE None]
  /\ UNCHANGED <<started, isFirstNode, localKey, nstate, registry, pstate,
                 dataVars, budget>>
  /\ UNCHANGED compVars

\* the handler's Send returns: the next record is on the connection, and the
\* handler goes on to its next Send or returns to the read loop
flowSend(e) ==
  /\ conns[e[1]] # NoConn
  /\ rl[e].pc = "send"
  /\ Room(e)
  /\ wire' = SendTo(wire, e, Head(rl[e].out))
  /\ rl' = [rl EXCEPT ![e] =
              IF Tail(rl[e].out) = <<>> THEN Idle
              ELSE [rl[e] EXCEPT !.out = Tail(@)]]
  /\ UNCHANGED <<nodeVars, conns, registry, pstate, dataVars, budget, lastErr>>
  /\ UNCHANGED compVars

\* Node.handleNewFile when the Send of its broadcast returns
flowNewFile(n, plain, iv) ==
  /\ \A c \in registry[n] : Room(EndOf(n, c))
  /\ handleNewFile(n, plain, iv)

\* A and B are connected and a file appears in the watch directory of each
InitFlow ==
  /\ InitAB
  /\ budget = [dials |-> 1, ops |-> MaxOps, faults |-> 0]

NextFlow ==
  \/ Connect("B", "A")
  \/ \E c \in ConnIds : Accept(c)
  \/ \E e \in Endpoints : flowDecode(e)
  \/ \E e \in Endpoints : flowSend(e)
  \/ \E e \in Endpoints : handleDataTransfer(e)
  \/ \E e \in Endpoints : writeChunk(e)
  \/ \E e \in Endpoints : finalizeVerify(e)
  \/ \E e \in Endpoints : finalizeWatchTransfer(e)
  \/ \E n \in {"A", "B"}, p \in Plains, iv \in IVs : flowNewFile(n, p, iv)

SpecFlow == InitFlow /\ [][NextFlow]_vars

\* the read loop of endpoint e is inside handleDataRequest for an object of
\* several chunks, in a Send of a chunk that the connection does not take
BlockedInSend(e) ==
  /\ conns[e[1]] # NoConn
  /\ rl[e].pc = "send" /\ rl[e].msg.type = "data_request"
  /\ Len(ReadChunks(store[Owner(e)][rl[e].msg.contentHash], 0, 0)) > 1
  /\ ~Room(e)

\* C38: the two read loops of a connection are never both blocked in the
\* Send of a chunk
C38_NoSendDeadlock ==
  \A c \in ConnIds : ~(BlockedInSend(<<c, "d">>) /\ BlockedInSend(<<c, "l">>))

\* ------------------------------------------------------------- stop and accept
\* Transport.acceptLoop, first half: listener.Accept returns connection c
\* while the listener is open; the loop now holds it
acceptReturn(c) ==
  /\ conns[c] # NoConn /\ ~conns[c].accepted
  /\ conns[c].listener \in started
  /\ rl[<<c, "l">>].pc = "idle"
  /\ rl' = [rl EXCEPT ![<<c, "l">>].pc = "accepted"]
  /\ UNCHANGED <<nodeVars, conns, registry, wire, pstate, dataVars, budget, lastErr>>
  /\ UNCHANGED compVars

\* Transport.acceptLoop, second half: the connection it holds is wrapped,
\* registered under t.mu and started
acceptRegister(c) ==
  /\ conns[c] # NoConn
  /\ rl[<<c, "l">>].pc = "accepted"
  /\ conns' = [conns EXCEPT ![c].accepted = TRUE]
  /\ registry' = [registry EXCEPT ![conns[c].listener] = @ \cup {c}]
  /\ pstate' = [pstate EXCEPT ![<<c, "l">>].loop = "running"]
  /\ rl' = [rl EXCEPT ![<<c, "l">>].pc = "idle"]
  /\ UNCHANGED <<nodeVars, wire, dataVars, budget, lastErr>>
  /\ UNCHANGED compVars

\* B dials A, or A dials B, while either node is stopped
InitStop ==
  /\ InitAB
  /\ budget = [dials |-> MaxDials, ops |-> 0, faults |-> 0, stops |-> MaxStops,
               injects |-> 0]

NextStop ==
  \/ \E n, m \in {"A", "B"} : Connect(n, m)
  \/ \E c \in ConnIds : acceptReturn(c)
  \/ \E c \in ConnIds : acceptRegister(c)
  \/ \E e \in Endpoints : handleHandshake(e)
  \/ \E n \in {"A", "B"} : Stop(n)

SpecStop == InitStop /\ [][NextStop]_vars

\* the accept loop of n holds an accepted connection it has not registered
Holding(n) ==
  {c \in ConnIds : conns[c] # NoConn /\ conns[c].listener = n
                   /\ rl[<<c, "l">>].pc = "accepted"}

\* Stop has returned at n and the accept loop of n has left: once t.done is
\* closed the loop leaves at its next select, which it reaches when it holds
\* no connection
StoppedAndExited(n) == nstate[n].stopped /\ Holding(n) = {}

\* C39: once Stop has returned and the accept loop has exited, every
\* registered connection is closed and no peer is registered any more
C39_StopVersusAccept ==
  /\ [](\A n \in Nodes : StoppedAndExited(n) =>
          \A e \in PeersOf(n) : pstate[e].done /\ ~pstate[e].open)
  /\ [][\A n \in Nodes : StoppedAndExited(n) => registry'[n] = registry[n]]_vars

\* ------------------------------------------------------------- transfer keys
\* the handlers of node n that hold a transferState and are about to write
\* a chunk into its temp file
Writing(n) ==
  {e \in Endpoints : conns[e[1]] # NoConn /\ Owner(e) = n /\ rl[e].pc = "write"}

\* C40: transfers on different connections, and of different hashes, have
\* transferStates and temp files of their own; a chunk is written into the
\* temp file of its own transfer only; and a hash mismatch at the end of
\* one transfer leaves every other transferState and temp file as it was
C40_Multiplexed ==
  /\ [](\A n \in Nodes :
          /\ \A k1, k2 \in DOMAIN transfers[n] :
               k1 # k2 => transfers[n][k1] # transfers[n][k2]
          /\ \A e1, e2 \in Writing(n) : e1 # e2 => rl[e1].st # rl[e2].st)
  /\ [][\A e \in Endpoints :
          /\ writeChunk(e) =>
               \A id \in DOMAIN files \cap DOMAIN files' :
                 id # rl[e].st => files'[id] = files[id]
          /\ finalizeVerify(e) =>
               \A k \in DOMAIN transfers[Owner(e)] :
                 k # TransferKey(e, rl[e].msg.contentHash) =>
                   /\ k \in DOMAIN transfers'[Owner(e)]
                   /\ transfers'[Owner(e)][k] = transfers[Owner(e)][k]
                   /\ files'[transfers[Owner(e)][k]] = files[transfers[Owner(e)][k]]]_vars

=============================================================================
